---- MODULE Spec2Model ----
(***************************************************************************)
(* A model of the dns-xdp core: the DomainTrie (domain_trie.cpp) with its   *)
(* lock, the FilterEngine (filter_engine.cpp) and the DNS wire parser and  *)
(* response builders (dns_parser.cpp).                                     *)
(*                                                                         *)
(* Text is modelled as sequences of character codes, packets as sequences  *)
(* of bytes, so that lower-casing, splitting and the wire walk are         *)
(* computed the way the code computes them.                                *)
(***************************************************************************)
EXTENDS Integers, Sequences, FiniteSets, TLC

VARIABLES
    root_,        \* DomainTrie::root_: the node graph, keyed by label path
    rule_count_,  \* DomainTrie::rule_count_
    call,         \* the trie call that has just completed, or the idle marker
    packet,       \* the caller's packet buffer: data[0 .. len-1], len = Len(packet)
    beyond,       \* what a read past the end of the packet buffer yields
    result,       \* the DNSParseResult the caller hands to parse
    pcall,        \* the codec call that has just completed, or the idle marker
    response,     \* the caller's output buffer as the last builder call left it
    mutex_,       \* DomainTrie::mutex_: who holds it exclusively, who shares it
    pc,           \* per thread: idle, or the trie call it is in and where
    stats,        \* FilterEngine's five counters
    rules_storage_, \* FilterEngine::rules_storage_: the rule copies, in order
    g_stats,      \* the facade's counters (g_packets_received, ...)
    out_result,   \* the XDPDNSParseResult the caller hands to xdp_dns_parse
    g_initialized, \* the facade's initialized flag
    response_len, \* the size_t the caller hands to the facade's build calls
    returns       \* the facade's parse and build calls completed since the
                  \* last reset of its counters, in order

trieVars == <<root_, rule_count_, call>>
codecVars == <<packet, beyond, result, pcall, response>>
lockVars == <<mutex_, pc>>
facadeVars == <<g_stats, out_result, g_initialized, response_len, returns>>
vars == <<root_, rule_count_, call, packet, beyond, result, pcall, response,
          mutex_, pc, stats, rules_storage_, g_stats, out_result,
          g_initialized, response_len, returns>>

(***************************************************************************)
(* Bounds of the model.                                                    *)
(***************************************************************************)
\* the longest generated domain, in labels
MaxLabels == 2
\* cap of rule_count_ (a size_t in the code): insert is not taken beyond it
MaxRuleCount == 2
\* the longest QNAME region of a generated packet, in bytes
MaxName == 3
\* how many 16-bit words at most a generated packet is cut short by
MaxCut == 2
\* the largest output buffer handed to decodeName
MaxBuf == 2
\* the largest response buffer handed to a builder, counted from the
\* question length (total_consumed) up
MaxSlack == 29
\* the number of threads that call into one DomainTrie
MaxThreads == 3
\* how many checks at most a FilterEngine is followed through
MaxChecks == 3
\* how many xdp_dns_parse calls at most the facade is followed through
MaxCalls == 2
MaxBridgeName == 1

(***************************************************************************)
(* Characters.                                                             *)
(***************************************************************************)
Dot == 46
Star == 42

\* ::tolower in the "C" locale
tolower(c) == IF c >= 65 /\ c <= 90 THEN c + 32 ELSE c

\* std::transform(dom.begin(), dom.end(), dom.begin(), ::tolower)
ToLowerStr(s) == [i \in 1..Len(s) |-> tolower(s[i])]

\* ASCII upper-casing, used to state case-insensitivity
toupper(c) == IF c >= 97 /\ c <= 122 THEN c - 32 ELSE c
ToUpperStr(s) == [i \in 1..Len(s) |-> toupper(s[i])]

\* std::string::substr(2)
Substr2(s) == SubSeq(s, 3, Len(s))

(***************************************************************************)
(* Rules are referred to by pointer; nullptr is the absent rule.           *)
(***************************************************************************)
nullptr == "nullptr"
Rules == {"r1", "r2"}

\* TrieNode(): no rule, no children
EmptyNode == [exact_rule |-> nullptr, wildcard_rule |-> nullptr]
\* std::make_unique<TrieNode>() as root_: the trie of the root node alone
EmptyTrie == (<<>> :> EmptyNode)

(***************************************************************************)
(* DomainTrie::splitAndReverse                                             *)
(***************************************************************************)
RECURSIVE SplitLabels(_, _, _, _)
SplitLabels(domain, i, current, labels) ==
    IF i > Len(domain)
    THEN IF current # <<>> THEN Append(labels, current) ELSE labels
    ELSE IF domain[i] = Dot
         THEN IF current # <<>>
              THEN SplitLabels(domain, i + 1, <<>>, Append(labels, current))
              ELSE SplitLabels(domain, i + 1, current, labels)
         ELSE SplitLabels(domain, i + 1, Append(current, domain[i]), labels)

Reverse(s) == [i \in 1..Len(s) |-> s[Len(s) + 1 - i]]

splitAndReverse(domain) == Reverse(SplitLabels(domain, 1, <<>>, <<>>))

\* the "*."-prefix test of insert and remove
IsWildcardForm(domain) ==
    Len(domain) > 2 /\ domain[1] = Star /\ domain[2] = Dot

\* the label path insert and remove walk for a domain argument
PathOf(domain) ==
    splitAndReverse(ToLowerStr(IF IsWildcardForm(domain) THEN Substr2(domain)
                                                        ELSE domain))

(***************************************************************************)
(* DomainTrie::matchImpl                                                   *)
(***************************************************************************)
\* mutant of rememberWildcard: the first wildcard seen is kept
rememberWildcard_KeepFirst(n, matched_wildcard) ==
    IF matched_wildcard # nullptr THEN matched_wildcard ELSE n.wildcard_rule

\* lines 143-145: the wildcard remembered after visiting node n
rememberWildcard(n, matched_wildcard) ==
    IF n.wildcard_rule # nullptr THEN n.wildcard_rule ELSE matched_wildcard

\* mutant of matchFinal: the wildcard rule of the final node is tried first
matchFinal_WildcardFirst(n, matched_wildcard) ==
    IF n.wildcard_rule # nullptr THEN n.wildcard_rule
    ELSE IF n.exact_rule # nullptr THEN n.exact_rule
    ELSE matched_wildcard

\* lines 155-162: the result once the label path is fully consumed
matchFinal(n, matched_wildcard) ==
    IF n.exact_rule # nullptr THEN n.exact_rule
    ELSE IF n.wildcard_rule # nullptr THEN n.wildcard_rule
    ELSE matched_wildcard

\* mutant of matchMissingChild: the exact rule of the last node reached leaks
matchMissingChild_ExactLeak(n, matched_wildcard) ==
    IF n.exact_rule # nullptr THEN n.exact_rule ELSE matched_wildcard

\* mutant of matchMissingChild: the remembered wildcard is dropped
matchMissingChild_Forget(n, matched_wildcard) == nullptr

\* lines 147-150: the result when node n has no child for the current label
matchMissingChild(n, matched_wildcard) == matched_wildcard

RECURSIVE matchWalk(_, _, _, _, _)
matchWalk(trie, labels, i, node, matched_wildcard) ==
    IF i > Len(labels)
    THEN matchFinal(trie[node], matched_wildcard)
    ELSE LET mw == rememberWildcard(trie[node], matched_wildcard)
             child == Append(node, labels[i])
         IN  IF child \notin DOMAIN trie
             THEN matchMissingChild(trie[node], mw)
             ELSE matchWalk(trie, labels, i + 1, child, mw)

matchImpl(trie, labels) == matchWalk(trie, labels, 1, <<>>, nullptr)

\* mutant of match: the domain is not lower-cased
match_NoLower(trie, domain) ==
    IF Len(domain) = 0 THEN nullptr
    ELSE matchImpl(trie, splitAndReverse(domain))

\* DomainTrie::match on a non-null domain pointer
match(trie, domain) ==
    IF Len(domain) = 0 THEN nullptr
    ELSE matchImpl(trie, splitAndReverse(ToLowerStr(domain)))

(***************************************************************************)
(* DomainTrie::insertImpl                                                  *)
(***************************************************************************)
Prefixes(labels) == {SubSeq(labels, 1, k) : k \in 0..Len(labels)}

\* lines 179-183: the slot written at the final node
storeRule(n, is_wildcard, rule) ==
    IF is_wildcard THEN [n EXCEPT !.wildcard_rule = rule]
                   ELSE [n EXCEPT !.exact_rule = rule]

insertImpl(trie, labels, is_wildcard, rule) ==
    LET grown == [p \in (DOMAIN trie) \cup Prefixes(labels) |->
                     IF p \in DOMAIN trie THEN trie[p] ELSE EmptyNode]
    IN  [grown EXCEPT ![labels] = storeRule(@, is_wildcard, rule)]

(***************************************************************************)
(* The inputs of the trie calls.                                           *)
(***************************************************************************)
Letters == {65, 97}     \* 'A', 'a'

\* the dotted strings of exactly n one-letter labels
RECURSIVE Dotted(_)
Dotted(n) ==
    IF n = 0 THEN {<<>>}
    ELSE IF n = 1 THEN {<<c>> : c \in Letters}
    ELSE {<<c, Dot>> \o s : c \in Letters, s \in Dotted(n - 1)}

\* a string of empty labels only ("."), and a sibling label ("b", "b.a")
OddDomains == { <<Dot>>, <<98>>, <<98, Dot, 97>> }

PlainDomains == UNION {Dotted(n) : n \in 0..MaxLabels} \cup OddDomains

\* every plain domain, and every one of them behind a "*." prefix
Domains == PlainDomains \cup {<<Star, Dot>> \o d : d \in PlainDomains}

RuleArgs == Rules \cup {nullptr}

Idle == [op |-> "idle"]

(***************************************************************************)
(* The trie calls. Each action is one whole call; call records it.         *)
(***************************************************************************)
Threads == 1..MaxThreads

\* nobody holds the mutex
FreeMutex == [exclusive |-> {}, shared |-> {}]

\* every thread outside the trie
AllIdle == [t \in Threads |-> Idle]

\* FilterEngine's counters after construction
ZeroStats ==
    [total_checks |-> 0, allowed |-> 0, blocked |-> 0, redirected |-> 0,
     logged |-> 0]

\* the facade's counters when the library is loaded
ZeroFacadeStats ==
    [packets_received |-> 0, packets_parsed |-> 0, parse_errors |-> 0,
     response_built |-> 0, total_latency_ns |-> 0]

\* what the caller's size_t holds before a build call
PriorLen == 65535

\* what the caller's XDPDNSParseResult holds before the call; domain lists the
\* bytes of the field that are known, from index 0
PriorOut ==
    [id |-> 65535, flags |-> 65535, qtype |-> 65535, qclass |-> 65535,
     name_offset |-> 0, question_end |-> 0, domain |-> <<>>,
     domain_len |-> 0]

\* what the caller's DNSParseResult holds before the call: left over from
\* some earlier use
PriorResult ==
    [header |-> "stale", id |-> 65535, flags |-> 65535, is_query |-> FALSE,
     name_start |-> "stale", name_offset |-> 0, name_wire_len |-> 0,
     qtype |-> 65535, qclass |-> 65535,
     total_consumed |-> 0, question_end |-> 0]

\* a new DomainTrie; no codec call is made beside it
TrieInit ==
    /\ root_ = EmptyTrie
    /\ rule_count_ = 0
    /\ call = Idle
    /\ packet = <<>>
    /\ beyond = 0
    /\ result = PriorResult
    /\ pcall = Idle
    /\ response = <<>>
    /\ mutex_ = FreeMutex
    /\ pc = AllIdle
    /\ stats = ZeroStats
    /\ rules_storage_ = <<>>
    /\ g_stats = ZeroFacadeStats
    /\ out_result = PriorOut
    /\ g_initialized = FALSE
    /\ response_len = PriorLen
    /\ returns = <<>>

\* lines 13-31 of DomainTrie::insert: what the call does to the trie
insertCall(domain, rule) ==
    /\ rule_count_ < MaxRuleCount
    /\ IF Len(domain) = 0 \/ rule = nullptr
       THEN UNCHANGED <<root_, rule_count_>>
       ELSE /\ root_' = insertImpl(root_, PathOf(domain),
                                   IsWildcardForm(domain), rule)
            /\ rule_count_' = rule_count_ + 1
    /\ call' = [op |-> "insert", domain |-> domain, rule |-> rule]

\* DomainTrie::insert
Insert(domain, rule) ==
    /\ call = Idle
    /\ UNCHANGED <<codecVars, lockVars, stats,
                 rules_storage_, facadeVars>>
    /\ insertCall(domain, rule)

\* DomainTrie::match
Match(domain) ==
    /\ call = Idle
    /\ UNCHANGED <<codecVars, lockVars, stats,
                 rules_storage_, facadeVars>>
    /\ call' = [op |-> "match", domain |-> domain, ret |-> match(root_, domain)]
    /\ UNCHANGED <<root_, rule_count_>>

\* a remove that takes any rule at the node for a hit
removeHit_EitherSlot(n, is_wildcard) ==
    n.wildcard_rule # nullptr \/ n.exact_rule # nullptr

\* lines 78-92 of DomainTrie::remove: the slot of the node reached is emptied
removeHit(n, is_wildcard) ==
    IF is_wildcard THEN n.wildcard_rule # nullptr ELSE n.exact_rule # nullptr

\* DomainTrie::remove
Remove(domain) ==
    /\ call = Idle
    /\ UNCHANGED <<codecVars, lockVars, stats,
                 rules_storage_, facadeVars>>
    /\ LET labels == PathOf(domain)
           found == Len(domain) # 0 /\ labels \in DOMAIN root_
           hit == found /\ removeHit(root_[labels], IsWildcardForm(domain))
       IN  /\ IF hit
              THEN /\ root_' = [root_ EXCEPT ![labels] =
                                   storeRule(@, IsWildcardForm(domain), nullptr)]
                   /\ rule_count_' = rule_count_ - 1
              ELSE UNCHANGED <<root_, rule_count_>>
           /\ call' = [op |-> "remove", domain |-> domain, ret |-> hit]

\* DomainTrie::clear
Clear ==
    /\ call = Idle
    /\ UNCHANGED <<codecVars, lockVars, stats,
                 rules_storage_, facadeVars>>
    /\ root_' = EmptyTrie
    /\ rule_count_' = 0
    /\ call' = [op |-> "clear"]

\* DomainTrie::size
Size ==
    /\ call = Idle
    /\ UNCHANGED <<codecVars, lockVars, stats,
                 rules_storage_, facadeVars>>
    /\ call' = [op |-> "size", ret |-> rule_count_]
    /\ UNCHANGED <<root_, rule_count_>>

\* the caller takes the result and is ready for its next call
Return ==
    /\ call # Idle
    /\ UNCHANGED <<codecVars, lockVars, stats,
                 rules_storage_, facadeVars>>
    /\ call' = Idle
    /\ UNCHANGED <<root_, rule_count_>>

TrieNext ==
    \/ \E d \in Domains, r \in RuleArgs : Insert(d, r)
    \/ \E d \in Domains : Match(d)
    \/ \E d \in Domains : Remove(d)
    \/ Clear
    \/ Size
    \/ Return

(***************************************************************************)
(* The FilterEngine (filter_engine.cpp): a DomainTrie (root_, rule_count_) *)
(* and five counters. A rule is named by the action it carries.            *)
(***************************************************************************)
EngineRules == {"allow_rule", "block_rule", "redirect_rule", "log_rule"}

\* rule->action
RuleAction(rule) ==
    CASE rule = "block_rule" -> "Block"
      [] rule = "redirect_rule" -> "Redirect"
      [] rule = "log_rule" -> "Log"
      [] OTHER -> "Allow"

\* mutant of counterOf: a Log rule is counted as allowed
counterOf_LogAsAllowed(action) ==
    CASE action = "Block" -> "blocked"
      [] action = "Redirect" -> "redirected"
      [] OTHER -> "allowed"

\* the switch at lines 24-37: the counter an action adds to
counterOf(action) ==
    CASE action = "Block" -> "blocked"
      [] action = "Redirect" -> "redirected"
      [] action = "Log" -> "logged"
      [] OTHER -> "allowed"

\* counter.fetch_add(1)
fetchAdd(st, counter) == [st EXCEPT ![counter] = @ + 1]

\* FilterEngine::check: the counters after the call, the action and the
\* rule of the FilterResult (qtype is not used by the code)
check(trie, st, domain) ==
    LET counted == fetchAdd(st, "total_checks")
        rule == match(trie, domain)
    IN  IF rule = nullptr
        THEN [stats |-> fetchAdd(counted, "allowed"), action |-> "Allow",
              rule |-> nullptr]
        ELSE [stats |-> fetchAdd(counted, counterOf(RuleAction(rule))),
              action |-> RuleAction(rule), rule |-> rule]

\* "a", "*.a", "b.a"
EngineDomains == { <<97>>, <<Star, Dot, 97>>, <<98, Dot, 97>> }

\* "", "A", "b.a", "b"
CheckDomains == { <<>>, <<65>>, <<98, Dot, 97>>, <<98>> }

\* a new FilterEngine
EngineInit ==
    /\ root_ = EmptyTrie
    /\ rule_count_ = 0
    /\ call = Idle
    /\ stats = ZeroStats
    /\ rules_storage_ = <<>>
    /\ g_stats = ZeroFacadeStats
    /\ out_result = PriorOut
    /\ g_initialized = FALSE
    /\ response_len = PriorLen
    /\ returns = <<>>
    /\ packet = <<>>
    /\ beyond = 0
    /\ result = PriorResult
    /\ pcall = Idle
    /\ response = <<>>
    /\ mutex_ = FreeMutex
    /\ pc = AllIdle

\* FilterEngine::addRule: the copy of the rule is appended to the storage
\* and then goes into the trie
AddRule(rule, domain) ==
    /\ call = Idle
    /\ UNCHANGED <<codecVars, lockVars, stats, facadeVars>>
    /\ rules_storage_' = Append(rules_storage_, rule)
    /\ insertCall(domain, rule)

\* FilterEngine::check
Check(domain) ==
    /\ call = Idle
    /\ stats.total_checks < MaxChecks
    /\ LET r == check(root_, stats, domain)
       IN  /\ stats' = r.stats
           /\ call' = [op |-> "check", domain |-> domain, action |-> r.action,
                       rule |-> r.rule, before |-> stats]
    /\ UNCHANGED <<root_, rule_count_, codecVars, lockVars,
                 rules_storage_, facadeVars>>

\* FilterEngine::resetStats
ResetStats ==
    /\ call = Idle
    /\ stats' = ZeroStats
    /\ call' = [op |-> "resetStats"]
    /\ UNCHANGED <<root_, rule_count_, codecVars, lockVars,
                 rules_storage_, facadeVars>>

EngineNext ==
    \/ \E r \in EngineRules, d \in EngineDomains : AddRule(r, d)
    \/ \E d \in CheckDomains : Check(d)
    \/ ResetStats
    \/ Return

\* one FilterEngine used by one caller
SpecEngine == EngineInit /\ [][EngineNext]_vars

(***************************************************************************)
(* The lock of the DomainTrie. A thread calls one of the five operations,  *)
(* constructs its std::unique_lock or std::shared_lock on mutex_ (which    *)
(* blocks until the mutex can be taken in that mode), is inside the        *)
(* critical section, and leaves it when the lock goes out of scope.        *)
(***************************************************************************)
LockedOps == {"insert", "remove", "clear", "match", "size"}

\* mutant of lockMode: insert takes the mutex in shared mode
lockMode_InsertShared(op) ==
    IF op \in {"match", "size", "insert"} THEN "shared" ELSE "exclusive"

\* std::shared_lock in match and size, std::unique_lock in insert, remove
\* and clear
lockMode(op) ==
    IF op \in {"match", "size"} THEN "shared" ELSE "exclusive"

\* std::shared_mutex: lock() needs no owner of either kind, lock_shared()
\* needs no exclusive owner
canLock(m, mode) ==
    IF mode = "exclusive"
    THEN m.exclusive = {} /\ m.shared = {}
    ELSE m.exclusive = {}

\* a new DomainTrie that no thread has entered; trie contents and codec are
\* left alone
LockInit ==
    /\ mutex_ = FreeMutex
    /\ pc = AllIdle
    /\ root_ = EmptyTrie
    /\ rule_count_ = 0
    /\ call = Idle
    /\ packet = <<>>
    /\ beyond = 0
    /\ result = PriorResult
    /\ pcall = Idle
    /\ response = <<>>
    /\ stats = ZeroStats
    /\ rules_storage_ = <<>>
    /\ g_stats = ZeroFacadeStats
    /\ out_result = PriorOut
    /\ g_initialized = FALSE
    /\ response_len = PriorLen
    /\ returns = <<>>

\* thread t calls op with arguments that pass the guard, and reaches the
\* lock constructor
CallOp(t, op) ==
    /\ pc[t] = Idle
    /\ pc' = [pc EXCEPT ![t] = [op |-> op, at |-> "lock"]]
    /\ UNCHANGED <<mutex_, trieVars, codecVars, stats,
                 rules_storage_, facadeVars>>

\* the lock constructor of thread t returns: t holds mutex_ in its mode
Lock(t) ==
    /\ pc[t] # Idle
    /\ pc[t].at = "lock"
    /\ canLock(mutex_, lockMode(pc[t].op))
    /\ mutex_' = IF lockMode(pc[t].op) = "exclusive"
                 THEN [mutex_ EXCEPT !.exclusive = @ \cup {t}]
                 ELSE [mutex_ EXCEPT !.shared = @ \cup {t}]
    /\ pc' = [pc EXCEPT ![t].at = "inside"]
    /\ UNCHANGED <<trieVars, codecVars, stats,
                 rules_storage_, facadeVars>>

\* the lock of thread t is destroyed at the end of the operation
Unlock(t) ==
    /\ pc[t] # Idle
    /\ pc[t].at = "inside"
    /\ mutex_' = [exclusive |-> mutex_.exclusive \ {t},
                  shared |-> mutex_.shared \ {t}]
    /\ pc' = [pc EXCEPT ![t] = Idle]
    /\ UNCHANGED <<trieVars, codecVars, stats,
                 rules_storage_, facadeVars>>

LockNext ==
    \/ \E t \in Threads, op \in LockedOps : CallOp(t, op)
    \/ \E t \in Threads : Lock(t)
    \/ \E t \in Threads : Unlock(t)

\* the threads and the mutex of one DomainTrie
SpecLock == LockInit /\ [][LockNext]_vars

(***************************************************************************)
(* FilterEngine::addRule and FilterEngine::check called by several         *)
(* threads. addRule is two critical sections, one after the other: the     *)
(* push_back under rules_mutex_ and the trie insert under the unique lock  *)
(* of the trie; check is the fetch_add of total_checks_, the trie match    *)
(* under the shared lock, and the counter update. Each is one step. A rule *)
(* copy is told apart from the others by the rule it copies, so every rule *)
(* is added once. call holds the last completed call.                      *)
(***************************************************************************)
\* mutant of addRuleSteps: the trie insert comes first
addRuleSteps_InsertFirst == <<"insert", "store">>

\* lines 51-54, then line 57
addRuleSteps == <<"store", "insert">>

\* the rule copies made so far: stored, or still only in an addRule frame
AllocatedRules ==
    {rules_storage_[i] : i \in 1..Len(rules_storage_)}
    \cup {pc[t].rule_ptr : t \in {u \in Threads : pc[u].op = "addRule"}}

\* where thread t goes after step number pc[t].step of addRule
afterAddRuleStep(t) ==
    IF pc[t].step < Len(addRuleSteps)
    THEN [pc[t] EXCEPT !.step = @ + 1, !.at = addRuleSteps[pc[t].step + 1]]
    ELSE Idle

\* lines 48-49: thread t enters addRule and makes the copy
AddRuleCall(t, rule, domain) ==
    /\ pc[t] = Idle
    /\ rule \notin AllocatedRules
    /\ Cardinality(AllocatedRules) < MaxRuleCount
    /\ pc' = [pc EXCEPT ![t] = [op |-> "addRule", step |-> 1,
                                at |-> addRuleSteps[1],
                                rule_ptr |-> rule, domain |-> domain]]
    /\ UNCHANGED <<mutex_, trieVars, codecVars, stats,
                 rules_storage_, facadeVars>>

\* lines 51-54: the copy is appended to the storage
AddRuleStore(t) ==
    /\ pc[t].op = "addRule"
    /\ pc[t].at = "store"
    /\ rules_storage_' = Append(rules_storage_, pc[t].rule_ptr)
    /\ pc' = [pc EXCEPT ![t] = afterAddRuleStep(t)]
    /\ call' = IF afterAddRuleStep(t) = Idle
               THEN [op |-> "addRule", rule |-> pc[t].rule_ptr,
                     domain |-> pc[t].domain]
               ELSE call
    /\ UNCHANGED <<root_, rule_count_, mutex_, codecVars, stats, facadeVars>>

\* line 57: trie_.insert(domain, domain_len, rule_ptr); every check that is
\* between its entry and its match notes the rule as inserted meanwhile
AddRuleInsert(t) ==
    /\ pc[t].op = "addRule"
    /\ pc[t].at = "insert"
    /\ IF Len(pc[t].domain) = 0
       THEN UNCHANGED <<root_, rule_count_>>
       ELSE /\ root_' = insertImpl(root_, PathOf(pc[t].domain),
                                   IsWildcardForm(pc[t].domain), pc[t].rule_ptr)
            /\ rule_count_' = rule_count_ + 1
    /\ pc' = [u \in Threads |->
                IF u = t THEN afterAddRuleStep(t)
                ELSE IF pc[u].op = "check" /\ pc[u].at = "match"
                THEN [pc[u] EXCEPT !.during = @ \cup {pc[t].rule_ptr}]
                ELSE pc[u]]
    /\ call' = IF afterAddRuleStep(t) = Idle
               THEN [op |-> "addRule", rule |-> pc[t].rule_ptr,
                     domain |-> pc[t].domain]
               ELSE call
    /\ UNCHANGED <<mutex_, codecVars, stats, rules_storage_, facadeVars>>

\* line 14: thread t enters check; pre is what a match would return now
CheckCall(t, domain) ==
    /\ pc[t] = Idle
    /\ stats.total_checks < MaxChecks
    /\ \A counter \in DOMAIN stats : stats[counter] < MaxChecks
    /\ stats' = fetchAdd(stats, "total_checks")
    /\ pc' = [u \in Threads |->
                IF u = t
                THEN [op |-> "check", at |-> "match", domain |-> domain,
                      pre |-> match(root_, domain), during |-> {}]
                ELSE IF pc[u].op = "getStats"
                THEN [pc[u] EXCEPT !.quiet = FALSE]
                ELSE pc[u]]
    /\ UNCHANGED <<mutex_, trieVars, codecVars, rules_storage_, facadeVars>>

\* line 16: trie_.match(domain, domain_len)
CheckMatch(t) ==
    /\ pc[t].op = "check"
    /\ pc[t].at = "match"
    /\ pc' = [pc EXCEPT ![t] =
                [op |-> "check", at |-> "account", domain |-> pc[t].domain,
                 pre |-> pc[t].pre, during |-> pc[t].during,
                 rule |-> match(root_, pc[t].domain)]]
    /\ UNCHANGED <<mutex_, trieVars, codecVars, stats,
                 rules_storage_, facadeVars>>

\* lines 18-39: the counter of the action, and the FilterResult
CheckAccount(t) ==
    /\ pc[t].op = "check"
    /\ pc[t].at = "account"
    /\ LET rule == pc[t].rule
           action == IF rule = nullptr THEN "Allow" ELSE RuleAction(rule)
       IN  /\ stats' = fetchAdd(stats, counterOf(action))
           /\ call' = [op |-> "check", domain |-> pc[t].domain,
                       action |-> action, rule |-> rule,
                       pre |-> pc[t].pre, during |-> pc[t].during]
    /\ pc' = [pc EXCEPT ![t] = Idle]
    /\ UNCHANGED <<root_, rule_count_, mutex_, codecVars,
                 rules_storage_, facadeVars>>

\* the rules and domains ("a", "*.a") the threads add, and the domains
\* ("A", "b.a") they check
SharedRules == {"block_rule", "log_rule"}
SharedDomains == { <<97>>, <<Star, Dot, 97>> }
SharedChecks == { <<65>>, <<98, Dot, 97>> }

AddCheckNext ==
    \/ \E t \in Threads, r \in SharedRules, d \in SharedDomains :
           AddRuleCall(t, r, d)
    \/ \E t \in Threads : AddRuleStore(t)
    \/ \E t \in Threads : AddRuleInsert(t)
    \/ \E t \in Threads, d \in SharedChecks : CheckCall(t, d)
    \/ \E t \in Threads : CheckMatch(t)
    \/ \E t \in Threads : CheckAccount(t)

\* one FilterEngine shared by the threads
SpecAddCheck == EngineInit /\ [][AddCheckNext]_vars

(***************************************************************************)
(* FilterEngine::getStats and FilterEngine::resetStats beside the checks.  *)
(* Each is five atomic operations, one per counter, in the order of the    *)
(* source; a thread may be anywhere between them. quiet says that no check *)
(* was in progress at any time since the getStats was entered.             *)
(***************************************************************************)
\* mutant of counterOrder: total_checks_ is read and stored last
counterOrder_TotalLast ==
    <<"allowed", "blocked", "redirected", "logged", "total_checks">>

\* lines 62-66 and 71-75: the order of the loads and of the stores
counterOrder ==
    <<"total_checks", "allowed", "blocked", "redirected", "logged">>

CheckInProgress == \E u \in Threads : pc[u].op = "check"

\* thread t enters getStats; one snapshot is taken at a time
GetStatsCall(t) ==
    /\ pc[t] = Idle
    /\ \A u \in Threads : pc[u].op # "getStats"
    /\ pc' = [pc EXCEPT ![t] = [op |-> "getStats", at |-> 1,
                                snapshot |-> ZeroStats,
                                quiet |-> ~CheckInProgress]]
    /\ UNCHANGED <<mutex_, trieVars, codecVars, stats,
                 rules_storage_, facadeVars>>

\* lines 62-66: the next counter is loaded into the Stats being returned
GetStatsLoad(t) ==
    /\ pc[t].op = "getStats"
    /\ pc[t].at <= Len(counterOrder)
    /\ LET counter == counterOrder[pc[t].at]
       IN  pc' = [pc EXCEPT ![t].at = @ + 1,
                            ![t].snapshot[counter] = stats[counter]]
    /\ UNCHANGED <<call, mutex_, trieVars, codecVars, stats,
                 rules_storage_, facadeVars>>

\* line 67: return s
GetStatsReturn(t) ==
    /\ pc[t].op = "getStats"
    /\ pc[t].at = Len(counterOrder) + 1
    /\ pc' = [pc EXCEPT ![t] = Idle]
    /\ call' = [op |-> "getStats"]
    /\ UNCHANGED <<root_, rule_count_, mutex_, codecVars, stats,
                 rules_storage_, facadeVars>>

\* thread t enters resetStats; one reset runs at a time
ResetStatsCall(t) ==
    /\ pc[t] = Idle
    /\ \A u \in Threads : pc[u].op # "resetStats"
    /\ pc' = [pc EXCEPT ![t] = [op |-> "resetStats", at |-> 1]]
    /\ UNCHANGED <<mutex_, trieVars, codecVars, stats,
                 rules_storage_, facadeVars>>

\* lines 71-75: the next counter is set to 0; after the last one the call
\* returns
ResetStatsStore(t) ==
    /\ pc[t].op = "resetStats"
    /\ stats' = [stats EXCEPT ![counterOrder[pc[t].at]] = 0]
    /\ IF pc[t].at < Len(counterOrder)
       THEN /\ pc' = [pc EXCEPT ![t].at = @ + 1]
            /\ UNCHANGED call
       ELSE /\ pc' = [pc EXCEPT ![t] = Idle]
            /\ call' = [op |-> "resetStats"]
    /\ UNCHANGED <<root_, rule_count_, mutex_, codecVars,
                 rules_storage_, facadeVars>>

\* a FilterEngine after addRule(block_rule, "a"): checks of "A" are blocked
StatsInit ==
    /\ root_ = insertImpl(EmptyTrie, <<<<97>>>>, FALSE, "block_rule")
    /\ rule_count_ = 1
    /\ rules_storage_ = <<"block_rule">>
    /\ call = Idle
    /\ stats = ZeroStats
    /\ packet = <<>>
    /\ beyond = 0
    /\ result = PriorResult
    /\ pcall = Idle
    /\ response = <<>>
    /\ mutex_ = FreeMutex
    /\ pc = AllIdle
    /\ g_stats = ZeroFacadeStats
    /\ out_result = PriorOut
    /\ g_initialized = FALSE
    /\ response_len = PriorLen
    /\ returns = <<>>

\* the domain ("A") the threads check
StatsChecks == { <<65>> }

StatsNext ==
    \/ \E t \in Threads, d \in StatsChecks : CheckCall(t, d)
    \/ \E t \in Threads : CheckMatch(t)
    \/ \E t \in Threads : CheckAccount(t)
    \/ \E t \in Threads : GetStatsCall(t)
    \/ \E t \in Threads : GetStatsLoad(t)
    \/ \E t \in Threads : GetStatsReturn(t)
    \/ \E t \in Threads : ResetStatsCall(t)
    \/ \E t \in Threads : ResetStatsStore(t)

\* one FilterEngine, loaded with one rule, whose threads check, take
\* snapshots and reset
SpecStats == StatsInit /\ [][StatsNext]_vars

(***************************************************************************)
(* The wire codec (dns_parser.cpp). Offsets are 0-based as in the code;     *)
(* a packet is the sequence of its bytes, data[i] being packet[i + 1].     *)
(***************************************************************************)
DNS_HEADER_SIZE == 12
MIN_DNS_QUERY_SIZE == DNS_HEADER_SIZE + 5
MAX_LABEL_LENGTH == 63
MAX_LABELS == 128
MAX_DOMAIN_LENGTH == 255

\* data[i]; an index at or past the end of the buffer reads whatever lies
\* behind it
ByteAt(data, i) == IF i < Len(data) THEN data[i + 1] ELSE beyond

\* ntohs(*reinterpret_cast<const uint16_t*>(data + i)): the big-endian word
U16At(data, i) == ByteAt(data, i) * 256 + ByteAt(data, i + 1)

\* mutant of IsPointer: the top bit alone makes a pointer
IsPointer_TopBitOnly(label_len) == label_len \div 128 = 1

\* (label_len & 0xC0) == 0xC0
IsPointer(label_len) == label_len \div 64 = 3

\* ((label_len & 0x3F) << 8) | data[offset + 1]
PointerTarget(label_len, low) == (label_len % 64) * 256 + low

\* mutant of withinJumpCap: one jump too many is allowed
withinJumpCap_OffByOne(jump_count) == jump_count <= MAX_LABELS

\* while (jump_count < MAX_LABELS)
withinJumpCap(jump_count) == jump_count < MAX_LABELS

\* mutant of nameEnd: the name ends after the terminator that was reached
nameEnd_AtTerminator(jumped, offset, original_offset) == offset + 1

\* lines 79-83: where the name ends in the packet
nameEnd(jumped, offset, original_offset) ==
    IF ~jumped THEN offset + 1 ELSE original_offset + 2

\* one iteration of a walk, as the walks record it
Step(at, kind, to) == [at |-> at, kind |-> kind, to |-> to]

(***************************************************************************)
(* The three name walks are while loops. A loop is modelled by its body,   *)
(* one iteration taking the loop state to the next loop state, and the     *)
(* body is repeated until the loop has returned (done) or WalkFuel         *)
(* iterations have been made; a walk that is still running then is         *)
(* reported as not returned.                                               *)
(***************************************************************************)
WalkFuel(len) == (MAX_LABELS + 1) * (len + 2)

Finish(s, err) == [s EXCEPT !.done = TRUE, !.err = err]

(***************************************************************************)
(* DNSParser::parseName. end_offset and wire_len are the caller's          *)
(* out-parameters, left as they were on failure.                           *)
(***************************************************************************)
\* one iteration of the loop at lines 70-119
parseNameStep(data, len, s) ==
    IF ~withinJumpCap(s.jump_count) THEN Finish(s, "PointerLoop")
    ELSE IF s.offset >= len THEN Finish(s, "TruncatedMessage")
    ELSE
    LET label_len == ByteAt(data, s.offset)
        t == [s EXCEPT !.reads = @ \cup {s.offset}]
    IN  IF label_len = 0
        THEN Finish([t EXCEPT !.end_offset =
                                  nameEnd(s.jumped, s.offset, s.original_offset),
                              !.wire_len = s.total_len + 1,
                              !.walk = Append(@, Step(s.offset, "end", s.offset))],
                    "Success")
        ELSE IF IsPointer(label_len)
        THEN IF s.offset + 1 >= len
             THEN Finish(t, "TruncatedMessage")
             ELSE LET ptr == PointerTarget(label_len, ByteAt(data, s.offset + 1))
                      u == [t EXCEPT !.reads = @ \cup {s.offset + 1}]
                  IN  IF ptr >= len
                      THEN Finish(u, "PointerLoop")
                      ELSE [u EXCEPT !.original_offset =
                                         IF s.jumped THEN @ ELSE s.offset,
                                     !.jumped = TRUE,
                                     !.offset = ptr,
                                     !.jump_count = @ + 1,
                                     !.walk = Append(@, Step(s.offset, "pointer", ptr))]
        ELSE IF label_len > MAX_LABEL_LENGTH
        THEN Finish(t, "InvalidLabel")
        ELSE IF s.offset + 1 + label_len > len
        THEN Finish(t, "TruncatedMessage")
        ELSE [t EXCEPT !.total_len = @ + 1 + label_len,
                       !.offset = @ + 1 + label_len,
                       !.walk = Append(@, Step(s.offset, "label",
                                               s.offset + 1 + label_len))]

RECURSIVE parseNameRun(_, _, _, _)
parseNameRun(data, len, s, n) ==
    IF s.done THEN s
    ELSE IF n <= 1 THEN parseNameStep(data, len, s)
    ELSE LET half == parseNameRun(data, len, s, n \div 2)
         IN  parseNameRun(data, len, half, n - n \div 2)

parseName(data, len, offset, end_offset, wire_len) ==
    parseNameRun(data, len,
        [offset |-> offset, original_offset |-> offset, jumped |-> FALSE,
         jump_count |-> 0, total_len |-> 0, reads |-> {}, walk |-> <<>>,
         end_offset |-> end_offset, wire_len |-> wire_len,
         done |-> FALSE, err |-> "running"],
        WalkFuel(len))

(***************************************************************************)
(* DNSParser::parse, data and result non-null. The value is the error, the *)
(* result structure as the call leaves it, and what the call read.         *)
(***************************************************************************)
\* mutant of parseHeaderFields: the id is taken in little-endian order
parseHeaderFields_HostOrder(data, r) ==
    [r EXCEPT !.header = "data",
              !.id = ByteAt(data, 0) + ByteAt(data, 1) * 256,
              !.flags = U16At(data, 2),
              !.is_query = (U16At(data, 2) \div 32768) % 2 = 0]

\* lines 19-24: the header pointer and the three header fields
parseHeaderFields(data, r) ==
    [r EXCEPT !.header = "data",
              !.id = U16At(data, 0),
              !.flags = U16At(data, 2),
              !.is_query = (U16At(data, 2) \div 32768) % 2 = 0]

\* lines 33-34
parseNameStart(r) ==
    [r EXCEPT !.name_start = "data+12", !.name_offset = DNS_HEADER_SIZE]

\* lines 50-53
parseQuestionTail(data, r, name_end) ==
    [r EXCEPT !.qtype = U16At(data, name_end),
              !.qclass = U16At(data, name_end + 2),
              !.total_consumed = name_end + 4,
              !.question_end = name_end + 4]

NoWalk == [jumps |-> 0, walk |-> <<>>, returned |-> TRUE]

parse(data, len, r0) ==
    IF len < MIN_DNS_QUERY_SIZE
    THEN [err |-> "PacketTooShort", result |-> r0, reads |-> {}, name |-> NoWalk]
    ELSE
    LET r1 == parseHeaderFields(data, r0)
    IN  IF U16At(data, 4) = 0
        THEN [err |-> "InvalidHeader", result |-> r1, reads |-> 0..5,
              name |-> NoWalk]
        ELSE
        LET r2 == parseNameStart(r1)
            n == parseName(data, len, DNS_HEADER_SIZE, 0, 0)
            nm == [jumps |-> n.jump_count, walk |-> n.walk, returned |-> n.done]
            rdn == (0..5) \cup n.reads
        IN  IF n.err # "Success"
            THEN [err |-> n.err, result |-> r2, reads |-> rdn, name |-> nm]
            ELSE
            LET r3 == [r2 EXCEPT !.name_wire_len = n.wire_len]
            IN  IF n.end_offset + 4 > len
                THEN [err |-> "TruncatedMessage", result |-> r3, reads |-> rdn,
                      name |-> nm]
                ELSE [err |-> "Success",
                      result |-> parseQuestionTail(data, r3, n.end_offset),
                      reads |-> rdn \cup (n.end_offset .. n.end_offset + 3),
                      name |-> nm]

(***************************************************************************)
(* DNSParser::decodeName. out is what has been written to out_buf so far   *)
(* (buf_pos = Len(out)); nul says whether the terminator was written at    *)
(* out_buf[buf_pos]; out_len is the caller's *out_len, written on success  *)
(* only.                                                                   *)
(***************************************************************************)
\* mutant of copyLabel: the label bytes as they are on the wire
copyLabel_AsIs(packet_, offset, label_len) ==
    [i \in 1..label_len |-> ByteAt(packet_, offset + i)]

\* lines 177-180: the label bytes, lower-cased
copyLabel(packet_, offset, label_len) ==
    [i \in 1..label_len |-> tolower(ByteAt(packet_, offset + i))]

\* one iteration of the loop at lines 138-182
decodeNameStep(packet_, packet_len, buf_size, s) ==
    IF ~withinJumpCap(s.jump_count) THEN Finish(s, "PointerLoop")
    ELSE IF s.offset >= packet_len THEN Finish(s, "TruncatedMessage")
    ELSE
    LET label_len == ByteAt(packet_, s.offset)
        t == [s EXCEPT !.reads = @ \cup {s.offset}]
    IN  IF label_len = 0
        THEN Finish([t EXCEPT !.nul = Len(s.out) > 0 /\ Len(s.out) < buf_size,
                              !.out_len = Len(s.out),
                              !.walk = Append(@, Step(s.offset, "end", s.offset))],
                    "Success")
        ELSE IF IsPointer(label_len)
        THEN IF s.offset + 1 >= packet_len
             THEN Finish(t, "TruncatedMessage")
             ELSE LET ptr == PointerTarget(label_len, ByteAt(packet_, s.offset + 1))
                  IN  [t EXCEPT !.offset = ptr,
                                !.jump_count = @ + 1,
                                !.reads = @ \cup {s.offset + 1},
                                !.walk = Append(@, Step(s.offset, "pointer", ptr))]
        ELSE IF ~s.first_label /\ Len(s.out) >= buf_size
        THEN Finish(t, "BufferTooSmall")
        ELSE
        LET dotted == IF s.first_label THEN s.out ELSE Append(s.out, Dot)
        IN  IF Len(dotted) + label_len > buf_size
            THEN Finish([t EXCEPT !.out = dotted, !.first_label = FALSE],
                        "BufferTooSmall")
            ELSE [t EXCEPT !.first_label = FALSE,
                           !.out = dotted \o copyLabel(packet_, s.offset, label_len),
                           !.offset = @ + 1 + label_len,
                           !.reads = @ \cup (s.offset + 1 .. s.offset + label_len),
                           !.walk = Append(@, Step(s.offset, "label",
                                                   s.offset + 1 + label_len))]

RECURSIVE decodeNameRun(_, _, _, _, _)
decodeNameRun(packet_, packet_len, buf_size, s, n) ==
    IF s.done THEN s
    ELSE IF n <= 1 THEN decodeNameStep(packet_, packet_len, buf_size, s)
    ELSE LET half == decodeNameRun(packet_, packet_len, buf_size, s, n \div 2)
         IN  decodeNameRun(packet_, packet_len, buf_size, half, n - n \div 2)

decodeName(packet_, packet_len, name_offset, buf_size, out_len) ==
    decodeNameRun(packet_, packet_len, buf_size,
        [offset |-> name_offset, out |-> <<>>, nul |-> FALSE, jump_count |-> 0,
         first_label |-> TRUE, reads |-> {}, walk |-> <<>>,
         out_len |-> out_len, done |-> FALSE, err |-> "running"],
        WalkFuel(packet_len))

(***************************************************************************)
(* DNSParser::domainEquals. err holds the boolean returned.                *)
(***************************************************************************)
\* lines 218-223: the label compared byte by byte; ok is FALSE when the loop
\* returned false
RECURSIVE compareLabel(_, _, _, _, _, _, _)
compareLabel(packet_, offset, i, label_len, domain, domain_pos, reads) ==
    IF i >= label_len THEN [ok |-> TRUE, domain_pos |-> domain_pos, reads |-> reads]
    ELSE IF domain_pos >= Len(domain)
    THEN [ok |-> FALSE, domain_pos |-> domain_pos, reads |-> reads]
    ELSE IF tolower(ByteAt(packet_, offset + i)) # tolower(domain[domain_pos + 1])
    THEN [ok |-> FALSE, domain_pos |-> domain_pos + 1,
          reads |-> reads \cup {offset + i}]
    ELSE compareLabel(packet_, offset, i + 1, label_len, domain, domain_pos + 1,
                      reads \cup {offset + i})

\* one iteration of the loop at lines 198-233
domainEqualsStep(packet_, packet_len, domain, s) ==
    IF ~withinJumpCap(s.jump_count) THEN Finish(s, FALSE)
    ELSE IF s.offset >= packet_len THEN Finish(s, FALSE)
    ELSE
    LET label_len == ByteAt(packet_, s.offset)
        t == [s EXCEPT !.reads = @ \cup {s.offset}]
    IN  IF label_len = 0
        THEN Finish([t EXCEPT !.walk = Append(@, Step(s.offset, "end", s.offset))],
                    s.domain_pos = Len(domain))
        ELSE IF IsPointer(label_len)
        THEN IF s.offset + 1 >= packet_len
             THEN Finish(t, FALSE)
             ELSE LET ptr == PointerTarget(label_len, ByteAt(packet_, s.offset + 1))
                  IN  [t EXCEPT !.offset = ptr,
                                !.jump_count = @ + 1,
                                !.reads = @ \cup {s.offset + 1},
                                !.walk = Append(@, Step(s.offset, "pointer", ptr))]
        ELSE
        LET c == compareLabel(packet_, s.offset + 1, 0, label_len, domain,
                              s.domain_pos, t.reads)
            next == s.offset + 1 + label_len
            u == [t EXCEPT !.reads = c.reads \cup {next},
                           !.offset = next,
                           !.walk = Append(@, Step(s.offset, "label", next))]
        IN  IF ~c.ok THEN Finish([t EXCEPT !.reads = c.reads], FALSE)
            ELSE IF ByteAt(packet_, next) # 0
            THEN IF c.domain_pos >= Len(domain) \/ domain[c.domain_pos + 1] # Dot
                 THEN Finish(u, FALSE)
                 ELSE [u EXCEPT !.domain_pos = c.domain_pos + 1]
            ELSE [u EXCEPT !.domain_pos = c.domain_pos]

RECURSIVE domainEqualsRun(_, _, _, _, _)
domainEqualsRun(packet_, packet_len, domain, s, n) ==
    IF s.done THEN s
    ELSE IF n <= 1 THEN domainEqualsStep(packet_, packet_len, domain, s)
    ELSE LET half == domainEqualsRun(packet_, packet_len, domain, s, n \div 2)
         IN  domainEqualsRun(packet_, packet_len, domain, half, n - n \div 2)

domainEquals(packet_, packet_len, name_offset, domain) ==
    domainEqualsRun(packet_, packet_len, domain,
        [offset |-> name_offset, domain_pos |-> 0, jump_count |-> 0,
         reads |-> {}, walk |-> <<>>, done |-> FALSE, err |-> FALSE],
        WalkFuel(packet_len))

(***************************************************************************)
(* DNSParser::domainEndsWith: the name is decoded into a buffer of          *)
(* MAX_DOMAIN_LENGTH + 1 chars and its tail compared with the suffix.      *)
(* domain_buf[i] of the code is domain_buf[i + 1] here.                    *)
(***************************************************************************)
\* lines 259-263: the tail of the decoded name equals the suffix, both
\* lower-cased
suffixMatches(domain_buf, start, suffix) ==
    \A i \in 0..(Len(suffix) - 1) :
        tolower(domain_buf[start + i + 1]) = tolower(suffix[i + 1])

\* mutant of onLabelBoundary: any tail will do
onLabelBoundary_AnyTail(domain_buf, start) == TRUE

\* lines 266-268: the tail starts the name or follows a dot
onLabelBoundary(domain_buf, start) ==
    ~(start > 0 /\ domain_buf[start] # Dot)

domainEndsWith(packet_, packet_len, name_offset, suffix) ==
    LET d == decodeName(packet_, packet_len, name_offset,
                        MAX_DOMAIN_LENGTH + 1, 0)
        domain_len == d.out_len
        start == domain_len - Len(suffix)
    IN  [returned |-> d.done, jump_count |-> d.jump_count, name |-> d.out,
         decoded |-> d.err,
         ret |-> IF d.err # "Success" THEN FALSE
                 ELSE IF domain_len < Len(suffix) THEN FALSE
                 ELSE IF ~suffixMatches(d.out, start, suffix) THEN FALSE
                 ELSE onLabelBoundary(d.out, start)]

(***************************************************************************)
(* The C facade (cgo_bridge.cpp): xdp_dns_parse. The arguments are not     *)
(* null. g is the record of the global counters, out the caller's          *)
(* XDPDNSParseResult; the call returns an int.                             *)
(***************************************************************************)
XDP_DNS_OK == 0
XDP_DNS_ERR_INVALID_PARAM == 0 - 1
XDP_DNS_ERR_PARSE_FAILED == 0 - 2
XDP_DNS_ERR_BUFFER_TOO_SMALL == 0 - 3
XDP_DNS_ERR_NOT_INITIALIZED == 0 - 4
XDP_DNS_ERR_NOT_DNS_QUERY == 0 - 5

\* static_cast<int>(err) for the values of enum class Error
ErrorCode(err) ==
    CASE err = "Success" -> 0
      [] err = "PacketTooShort" -> 0 - 1
      [] err = "InvalidHeader" -> 0 - 2
      [] err = "TruncatedMessage" -> 0 - 3
      [] err = "PointerLoop" -> 0 - 4
      [] err = "InvalidLabel" -> 0 - 5
      [] err = "BufferTooSmall" -> 0 - 6
      [] err = "NotQuery" -> 0 - 7

\* lines 68-73: the fields copied from the DNSParseResult
fillResult(out, parsed) ==
    [out EXCEPT !.id = parsed.id, !.flags = parsed.flags,
                !.qtype = parsed.qtype, !.qclass = parsed.qclass,
                !.name_offset = parsed.name_offset,
                !.question_end = parsed.question_end]

Max(a, b) == IF a > b THEN a ELSE b

\* lines 78-83: what decodeName leaves in result->domain, whose bytes before
\* the call are domain: the decoded bytes from index 0 and, where decodeName
\* wrote it, the terminator after them
storeDomain(domain, d) ==
    LET written == d.out \o (IF d.nul THEN <<0>> ELSE <<>>)
    IN  [i \in 1..Max(Len(domain), Len(written)) |->
            IF i <= Len(written) THEN written[i] ELSE domain[i]]

\* g_parse_errors.fetch_add(1) at lines 59 and 85
countParseError(g) == [g EXCEPT !.parse_errors = @ + 1]

\* line 48: a null packet_data or result (null_argument), or less than a
\* header
rejectsParseArguments(null_argument, packet_len) ==
    null_argument \/ packet_len < 12

xdp_dns_parse(null_argument, packet_data, packet_len, out, g) ==
    IF rejectsParseArguments(null_argument, packet_len)
    THEN [ret |-> XDP_DNS_ERR_INVALID_PARAM, out |-> out, g |-> g,
          parse |-> "not called"]
    ELSE
    LET g1 == [g EXCEPT !.packets_received = @ + 1]
        p == parse(packet_data, packet_len, PriorResult)
    IN  IF p.err # "Success"
        THEN [ret |-> ErrorCode(p.err), out |-> out,
              g |-> countParseError(g1), parse |-> p.err]
        ELSE IF ~p.result.is_query
        THEN [ret |-> XDP_DNS_ERR_NOT_DNS_QUERY, out |-> out, g |-> g1,
              parse |-> p.err]
        ELSE
        LET filled == fillResult(out, p.result)
            d == decodeName(packet_data, packet_len, p.result.name_offset,
                            MAX_DOMAIN_LENGTH + 1, 0)
            named == [filled EXCEPT !.domain = storeDomain(out.domain, d)]
        IN  IF d.err # "Success"
            THEN [ret |-> ErrorCode(d.err), out |-> named,
                  g |-> countParseError(g1), parse |-> p.err]
            ELSE [ret |-> XDP_DNS_OK,
                  out |-> [named EXCEPT !.domain_len = d.out_len],
                  g |-> [g1 EXCEPT !.packets_parsed = @ + 1],
                  parse |-> p.err]

(***************************************************************************)
(* DNSResponseBuilder. The output buffer is the sequence of its bytes,     *)
(* response[i] being buf[i + 1]; a byte no call has written is -1.         *)
(***************************************************************************)
\* a | b and a & b on unsigned integers
RECURSIVE BitOr(_, _)
BitOr(a, b) ==
    IF a = 0 THEN b
    ELSE IF b = 0 THEN a
    ELSE (IF a % 2 = 1 \/ b % 2 = 1 THEN 1 ELSE 0) + 2 * BitOr(a \div 2, b \div 2)

RECURSIVE BitAnd(_, _)
BitAnd(a, b) ==
    IF a = 0 \/ b = 0 THEN 0
    ELSE (IF a % 2 = 1 /\ b % 2 = 1 THEN 1 ELSE 0) + 2 * BitAnd(a \div 2, b \div 2)

Hi(x) == x \div 256
Lo(x) == x % 256

\* the two bytes htons(x) puts in memory
U16Bytes(x) == <<Hi(x), Lo(x)>>

\* mutant of U32Bytes: the value is stored without htonl
U32Bytes_HostOrder(x) ==
    << x % 256, (x \div 256) % 256, (x \div 65536) % 256, x \div 16777216 >>

\* the four bytes htonl(x) puts in memory
U32Bytes(x) ==
    << x \div 16777216, (x \div 65536) % 256, (x \div 256) % 256, x % 256 >>

\* buf with the bytes written at offset off and after; only indices inside
\* the buffer exist
WriteAt(buf, off, bytes) ==
    [i \in 1..Len(buf) |->
        IF i - 1 >= off /\ i - 1 < off + Len(bytes) THEN bytes[i - off] ELSE buf[i]]

\* std::memcpy(response, query, parsed.total_consumed)
copyQuestion(query, parsed, buf) ==
    WriteAt(buf, 0, [i \in 1..parsed.total_consumed |-> ByteAt(query, i - 1)])

\* lines 291-295
nxdomainFlags(flags) ==
    BitOr(BitAnd(BitOr(BitOr(flags, 32768), 128), 65520), 3)

\* lines 440-444
refusedFlags(flags) ==
    BitOr(BitAnd(BitOr(BitOr(flags, 32768), 128), 65520), 5)

\* mutant of answerFlags: the RCODE of the query is kept
answerFlags_KeepRcode(flags) ==
    BitOr(BitOr(BitOr(flags, 32768), 1024), 128)

\* lines 328-332 and 388-392
answerFlags(flags) ==
    BitAnd(BitOr(BitOr(BitOr(flags, 32768), 1024), 128), 65520)

\* mutant of bufferTooSmall: a buffer of exactly the size needed is refused
bufferTooSmall_Exact(response_buf_size, total_size) ==
    response_buf_size <= total_size

\* if (response_buf_size < total_size) return 0;
bufferTooSmall(response_buf_size, total_size) ==
    response_buf_size < total_size

\* lines 290-301 and 439-449: flags, then the three counts set to 0
negativeHeader(query, buf, flags) ==
    WriteAt(WriteAt(buf, 2, U16Bytes(flags)), 6, <<0, 0, 0, 0, 0, 0>>)

\* lines 327-334 and 387-394: flags, then an_count = htons(1)
answerHeader(query, buf, flags) ==
    WriteAt(WriteAt(buf, 2, U16Bytes(flags)), 6, U16Bytes(1))

\* lines 340-361 and 400-421: the answer record
answerRecord(type, ttl, rdlength, rdata) ==
    <<192, DNS_HEADER_SIZE>> \o U16Bytes(type) \o U16Bytes(1)
        \o U32Bytes(ttl) \o U16Bytes(rdlength) \o rdata

\* DNSResponseBuilder::buildNXDomain; buf is the output buffer before the call
buildNXDomain(query, parsed, buf) ==
    IF bufferTooSmall(Len(buf), parsed.total_consumed)
    THEN [ret |-> 0, response |-> buf]
    ELSE [ret |-> parsed.total_consumed,
          response |-> negativeHeader(query, copyQuestion(query, parsed, buf),
                                      nxdomainFlags(U16At(query, 2)))]

\* DNSResponseBuilder::buildRefused
buildRefused(query, parsed, buf) ==
    IF bufferTooSmall(Len(buf), parsed.total_consumed)
    THEN [ret |-> 0, response |-> buf]
    ELSE [ret |-> parsed.total_consumed,
          response |-> negativeHeader(query, copyQuestion(query, parsed, buf),
                                      refusedFlags(U16At(query, 2)))]

\* DNSResponseBuilder::buildAResponse; ip is the four bytes the uint32_t
\* holds in memory (network byte order)
buildAResponse(query, parsed, ip, ttl, buf) ==
    IF bufferTooSmall(Len(buf), parsed.total_consumed + 16)
    THEN [ret |-> 0, response |-> buf]
    ELSE [ret |-> parsed.total_consumed + 16,
          response |->
              WriteAt(answerHeader(query, copyQuestion(query, parsed, buf),
                                   answerFlags(U16At(query, 2))),
                      parsed.total_consumed, answerRecord(1, ttl, 4, ip))]

\* DNSResponseBuilder::buildAAAAResponse
buildAAAAResponse(query, parsed, ipv6, ttl, buf) ==
    IF bufferTooSmall(Len(buf), parsed.total_consumed + 28)
    THEN [ret |-> 0, response |-> buf]
    ELSE [ret |-> parsed.total_consumed + 28,
          response |->
              WriteAt(answerHeader(query, copyQuestion(query, parsed, buf),
                                   answerFlags(U16At(query, 2))),
                      parsed.total_consumed, answerRecord(28, ttl, 16, ipv6))]

(***************************************************************************)
(* The facade's build entry points (cgo_bridge.cpp).                       *)
(***************************************************************************)
\* lines 122-129 (159-166, 196-203): b is what the builder returned and left
\* in the buffer
countBuilt_Always(b, len, g) ==
    [ret |-> IF b.ret = 0 THEN XDP_DNS_ERR_BUFFER_TOO_SMALL ELSE XDP_DNS_OK,
     response |-> b.response, len |-> b.ret,
     g |-> [g EXCEPT !.response_built = @ + 1]]

countBuilt(b, len, g) ==
    IF b.ret = 0
    THEN [ret |-> XDP_DNS_ERR_BUFFER_TOO_SMALL, response |-> b.response,
          len |-> len, g |-> g]
    ELSE [ret |-> XDP_DNS_OK, response |-> b.response, len |-> b.ret,
          g |-> [g EXCEPT !.response_built = @ + 1]]

\* a build call that returns before the builder is reached
notBuilt(ret, buf, len, g) ==
    [ret |-> ret, response |-> buf, len |-> len, g |-> g]

\* xdp_dns_build_nxdomain; null_argument: original_packet, response_buf or
\* response_len is null; buf and len are the buffer and *response_len before
\* the call
xdp_dns_build_nxdomain(null_argument, original_packet, original_len, buf, len, g) ==
    IF null_argument THEN notBuilt(XDP_DNS_ERR_INVALID_PARAM, buf, len, g)
    ELSE
    LET p == parse(original_packet, original_len, PriorResult)
    IN  IF p.err # "Success" THEN notBuilt(ErrorCode(p.err), buf, len, g)
        ELSE countBuilt(buildNXDomain(original_packet, p.result, buf), len, g)

\* xdp_dns_build_a_response
xdp_dns_build_a_response(null_argument, original_packet, original_len, ipv4_addr, ttl, buf, len, g) ==
    IF null_argument THEN notBuilt(XDP_DNS_ERR_INVALID_PARAM, buf, len, g)
    ELSE
    LET p == parse(original_packet, original_len, PriorResult)
    IN  IF p.err # "Success" THEN notBuilt(ErrorCode(p.err), buf, len, g)
        ELSE countBuilt(buildAResponse(original_packet, p.result, ipv4_addr,
                                       ttl, buf), len, g)

\* xdp_dns_build_aaaa_response; ipv6_addr is one more pointer that may be null
xdp_dns_build_aaaa_response(null_argument, original_packet, original_len, ipv6_addr, ttl, buf, len, g) ==
    IF null_argument THEN notBuilt(XDP_DNS_ERR_INVALID_PARAM, buf, len, g)
    ELSE
    LET p == parse(original_packet, original_len, PriorResult)
    IN  IF p.err # "Success" THEN notBuilt(ErrorCode(p.err), buf, len, g)
        ELSE countBuilt(buildAAAAResponse(original_packet, p.result, ipv6_addr,
                                          ttl, buf), len, g)

\* xdp_dns_init: the flag it stores and the status it returns
xdp_dns_init == [initialized |-> TRUE, ret |-> XDP_DNS_OK]

\* xdp_dns_cleanup: the flag it stores
xdp_dns_cleanup == [initialized |-> FALSE]

\* xdp_dns_get_stats: the XDPDNSStats it fills
xdp_dns_get_stats(g) ==
    [packets_received |-> g.packets_received,
     packets_parsed |-> g.packets_parsed,
     parse_errors |-> g.parse_errors,
     response_built |-> g.response_built,
     total_latency_ns |-> g.total_latency_ns,
     packets_allowed |-> 0, packets_blocked |-> 0, packets_redirected |-> 0]

(***************************************************************************)
(* The inputs of the codec calls.                                          *)
(***************************************************************************)
\* the 12 header bytes, every count big-endian
Header(id, flags, qd, an, ns, ar) ==
    << Hi(id), Lo(id), Hi(flags), Lo(flags), Hi(qd), Lo(qd),
       Hi(an), Lo(an), Hi(ns), Lo(ns), Hi(ar), Lo(ar) >>

\* a query whose header bytes read as a name (01 41 01 00 00 ..), a response
\* whose flags read as a pointer to the QNAME (01 41 C0 0C ..) and carry an
\* RCODE and whose other counts are not 0, and a header with no question
Headers ==
    { Header(321, 256, 1, 0, 0, 0),
      Header(321, 49164, 1, 2, 1, 1),
      Header(4660, 256, 0, 0, 0, 0) }

\* terminator and pointer to 0, label of 1 and pointer to 1, 'A' (also a
\* length byte with top bits 01), a length byte with top bits 10, the pointer
\* marker, 12 (pointer to the QNAME itself, and a label longer than the packet)
NameBytes == {0, 1, 65, 128, 192, 12}

RECURSIVE BytesUpTo(_)
BytesUpTo(n) ==
    IF n = 0 THEN {<<>>}
    ELSE LET shorter == BytesUpTo(n - 1)
         IN  shorter \cup {Append(b, x) : b \in {y \in shorter : Len(y) = n - 1},
                                           x \in NameBytes}

\* qtype A, qclass IN
QuestionTail == <<0, 1, 0, 1>>

\* the query for www.example.com, type A, class IN, of the parser tests
SimpleQuery ==
    Header(4660, 256, 1, 0, 0, 0)
    \o <<3, 119, 119, 119>>
    \o <<7, 101, 120, 97, 109, 112, 108, 101>>
    \o <<3, 99, 111, 109, 0>>
    \o QuestionTail

\* header, QNAME region and qtype/qclass, cut short by up to MaxCut words
GeneratedPackets ==
    { SubSeq(h \o n \o QuestionTail, 1, DNS_HEADER_SIZE + Len(n) + 4 - 2 * k) :
        h \in Headers, n \in BytesUpTo(MaxName), k \in 0..MaxCut }

\* a query for "A" whose QNAME ends in a pointer to a zero byte (offset 4,
\* the high byte of qd_count): the root reached through compression
RootPointerQuery ==
    Header(4660, 256, 1, 0, 0, 0) \o <<1, 65, 192, 4>> \o QuestionTail

\* the three bytes of the PacketTooShort test
ShortPacket == <<18, 52, 1>>

\* a query whose QNAME is a chain of k pointers, each to the two bytes after
\* it, and then the terminating zero
PointerChainQuery(k) ==
    Header(4660, 256, 1, 0, 0, 0)
    \o [i \in 1..(2 * k) |->
          LET target == DNS_HEADER_SIZE + 2 * ((i + 1) \div 2)
          IN  IF i % 2 = 1 THEN 192 + target \div 256 ELSE target % 256]
    \o <<0>> \o QuestionTail

\* the chains of one pointer less than the jump cap and of as many
ChainPackets == {PointerChainQuery(MAX_LABELS - 1), PointerChainQuery(MAX_LABELS)}

Packets ==
    GeneratedPackets \cup {SimpleQuery, RootPointerQuery, ShortPacket}
    \cup ChainPackets

BeyondBytes == {0, 65}

NameOffsets == {0, DNS_HEADER_SIZE}

\* the output buffers handed to decodeName: the small ones, and the
\* char[MAX_DOMAIN_LENGTH + 1] of domainEndsWith
BufSizes == (0..MaxBuf) \cup {MAX_DOMAIN_LENGTH + 1}

\* candidates of domainEquals: "", "a", "A.", "a.a"
Candidates == { <<>>, <<97>>, <<65, Dot>>, <<97, Dot, 97>> }

\* the packets handed to the facade's build calls: the generated ones with a
\* QNAME region of at most MaxBridgeName bytes, and the named queries
BridgePackets ==
    { SubSeq(h \o n \o QuestionTail, 1, DNS_HEADER_SIZE + Len(n) + 4 - 2 * k) :
        h \in Headers, n \in BytesUpTo(MaxBridgeName), k \in 0..MaxCut }
    \cup {SimpleQuery, RootPointerQuery, ShortPacket}

\* 10.0.0.1 for 0x01020304 s
BridgeAnswers4 == { [ip |-> <<10, 0, 0, 1>>, ttl |-> 16909060] }

\* a packet has arrived at the facade, which has not been initialized
BridgeInit ==
    /\ packet \in BridgePackets
    /\ beyond \in BeyondBytes
    /\ result = PriorResult
    /\ pcall = Idle
    /\ response = <<>>
    /\ mutex_ = FreeMutex
    /\ pc = AllIdle
    /\ stats = ZeroStats
    /\ rules_storage_ = <<>>
    /\ g_stats = ZeroFacadeStats
    /\ out_result = PriorOut
    /\ g_initialized = FALSE
    /\ response_len = PriorLen
    /\ returns = <<>>
    /\ root_ = EmptyTrie
    /\ rule_count_ = 0
    /\ call = Idle

\* what the domain field of the caller's XDPDNSParseResult starts with before
\* the first call: zeroed, or "x" from an earlier use
PriorDomains == { <<0>>, <<120, 0>> }

\* a packet has arrived at the facade, and the caller has a result struct
FacadeInit ==
    /\ packet \in Packets
    /\ beyond \in BeyondBytes
    /\ result = PriorResult
    /\ pcall = Idle
    /\ response = <<>>
    /\ mutex_ = FreeMutex
    /\ pc = AllIdle
    /\ stats = ZeroStats
    /\ rules_storage_ = <<>>
    /\ g_stats = ZeroFacadeStats
    /\ out_result \in {[PriorOut EXCEPT !.domain = d] : d \in PriorDomains}
    /\ g_initialized = FALSE
    /\ response_len = PriorLen
    /\ returns = <<>>
    /\ root_ = EmptyTrie
    /\ rule_count_ = 0
    /\ call = Idle

\* a packet has arrived; the trie is the new, empty one and is not used
CodecInit ==
    /\ packet \in Packets
    /\ beyond \in BeyondBytes
    /\ result = PriorResult
    /\ pcall = Idle
    /\ response = <<>>
    /\ mutex_ = FreeMutex
    /\ pc = AllIdle
    /\ stats = ZeroStats
    /\ rules_storage_ = <<>>
    /\ g_stats = ZeroFacadeStats
    /\ out_result = PriorOut
    /\ g_initialized = FALSE
    /\ response_len = PriorLen
    /\ returns = <<>>
    /\ root_ = EmptyTrie
    /\ rule_count_ = 0
    /\ call = Idle

(***************************************************************************)
(* The codec calls. Each action is one whole call on the packet.           *)
(***************************************************************************)
\* DNSParser::parse(packet, len, &result)
Parse ==
    /\ pcall = Idle
    /\ UNCHANGED <<trieVars, lockVars, stats,
                 rules_storage_, facadeVars>>
    /\ LET r == parse(packet, Len(packet), result)
       IN  /\ result' = r.result
           /\ pcall' = [op |-> "parse", err |-> r.err, before |-> result,
                        data |-> packet, reads |-> r.reads,
                        returned |-> r.name.returned,
                        jumps |-> r.name.jumps, walk |-> r.name.walk]
    /\ UNCHANGED <<packet, beyond, response>>

\* DNSParser::decodeName(packet, len, name_offset, out_buf, buf_size, &out_len)
DecodeName(name_offset, buf_size) ==
    /\ pcall = Idle
    /\ UNCHANGED <<trieVars, lockVars, stats,
                 rules_storage_, facadeVars>>
    /\ LET r == decodeName(packet, Len(packet), name_offset, buf_size, 0)
       IN  pcall' = [op |-> "decodeName", err |-> r.err,
                     name_offset |-> name_offset, buf_size |-> buf_size,
                     out |-> r.out, nul |-> r.nul, out_len |-> r.out_len,
                     returned |-> r.done,
                     reads |-> r.reads, jumps |-> r.jump_count, walk |-> r.walk]
    /\ UNCHANGED <<packet, beyond, result, response>>

\* DNSParser::domainEquals(packet, len, q, domain, domain_len), q.name_offset
\* being name_offset
DomainEquals(name_offset, domain) ==
    /\ pcall = Idle
    /\ UNCHANGED <<trieVars, lockVars, stats,
                 rules_storage_, facadeVars>>
    /\ LET r == domainEquals(packet, Len(packet), name_offset, domain)
       IN  pcall' = [op |-> "domainEquals", ret |-> r.err,
                     name_offset |-> name_offset, domain |-> domain,
                     returned |-> r.done,
                     reads |-> r.reads, jumps |-> r.jump_count, walk |-> r.walk]
    /\ UNCHANGED <<packet, beyond, result, response>>

\* suffixes of domainEndsWith: "", "a", "A", ".a", "a.a", "com",
\* "ample.com", "EXAMPLE.COM", "www.example.com"
Suffixes ==
    { <<>>, <<97>>, <<65>>, <<Dot, 97>>, <<97, Dot, 97>>,
      <<99, 111, 109>>,
      <<97, 109, 112, 108, 101, Dot, 99, 111, 109>>,
      <<69, 88, 65, 77, 80, 76, 69, Dot, 67, 79, 77>>,
      <<119, 119, 119, Dot, 101, 120, 97, 109, 112, 108, 101, Dot, 99, 111, 109>> }

\* DNSParser::domainEndsWith(packet, len, q, suffix, suffix_len),
\* q.name_offset being name_offset
DomainEndsWith(name_offset, suffix) ==
    /\ pcall = Idle
    /\ UNCHANGED <<trieVars, lockVars, stats,
                 rules_storage_, facadeVars>>
    /\ LET r == domainEndsWith(packet, Len(packet), name_offset, suffix)
       IN  pcall' = [op |-> "domainEndsWith", ret |-> r.ret,
                     name_offset |-> name_offset, suffix |-> suffix,
                     returned |-> r.returned, jumps |-> r.jump_count]
    /\ UNCHANGED <<packet, beyond, result, response>>

\* the record of a completed facade call: its inputs, what its call of
\* DNSParser::parse returned, its status, the counters, the result struct
\* and *response_len before and after it, and the response buffer after it
Completed(op, args, parsed, ret, g, out, len, buf) ==
    [op |-> op, args |-> args, initialized |-> g_initialized,
     parse |-> parsed, ret |-> ret, response |-> buf,
     g_before |-> g_stats, g |-> g,
     out_before |-> out_result, out |-> out,
     len_before |-> response_len, len |-> len]

\* xdp_dns_parse(packet, len, &out_result), or the call with a null pointer
XdpDnsParse(null_argument) ==
    /\ pcall = Idle
    /\ Len(returns) < MaxCalls
    /\ UNCHANGED <<trieVars, lockVars, stats, rules_storage_>>
    /\ \E r \in {xdp_dns_parse(null_argument, packet, Len(packet),
                                out_result, g_stats)} :
         \E done \in {Completed("xdp_dns_parse", [null |-> null_argument],
                                r.parse, r.ret, r.g, r.out, response_len,
                                response)} :
            /\ out_result' = r.out
            /\ g_stats' = r.g
            /\ pcall' = done
            /\ returns' = Append(returns, done)
    /\ UNCHANGED <<packet, beyond, result, response, g_initialized,
                   response_len>>

\* xdp_dns_get_stats(&stats)
XdpDnsGetStats ==
    /\ pcall = Idle
    /\ pcall' = [op |-> "xdp_dns_get_stats",
                 stats |-> xdp_dns_get_stats(g_stats)]
    /\ UNCHANGED <<trieVars, lockVars, stats, rules_storage_, facadeVars>>
    /\ UNCHANGED <<packet, beyond, result, response>>

\* xdp_dns_reset_stats()
XdpDnsResetStats ==
    /\ pcall = Idle
    /\ g_stats' = ZeroFacadeStats
    /\ returns' = <<>>
    /\ pcall' = [op |-> "xdp_dns_reset_stats"]
    /\ UNCHANGED <<trieVars, lockVars, stats, rules_storage_>>
    /\ UNCHANGED <<packet, beyond, result, response, out_result,
                   g_initialized, response_len>>

BuildOps ==
    {"xdp_dns_build_nxdomain", "xdp_dns_build_a_response",
     "xdp_dns_build_aaaa_response"}

FacadeOps ==
    {"xdp_dns_init", "xdp_dns_cleanup", "xdp_dns_parse",
     "xdp_dns_get_stats", "xdp_dns_reset_stats"} \cup BuildOps

\* xdp_dns_init()
XdpDnsInit ==
    /\ pcall = Idle
    /\ g_initialized' = xdp_dns_init.initialized
    /\ pcall' = [op |-> "xdp_dns_init", ret |-> xdp_dns_init.ret,
                 g_before |-> g_stats]
    /\ UNCHANGED <<trieVars, lockVars, stats, rules_storage_>>
    /\ UNCHANGED <<packet, beyond, result, response, g_stats, out_result,
                   response_len, returns>>

\* xdp_dns_cleanup()
XdpDnsCleanup ==
    /\ pcall = Idle
    /\ g_initialized' = xdp_dns_cleanup.initialized
    /\ pcall' = [op |-> "xdp_dns_cleanup", g_before |-> g_stats]
    /\ UNCHANGED <<trieVars, lockVars, stats, rules_storage_>>
    /\ UNCHANGED <<packet, beyond, result, response, g_stats, out_result,
                   response_len, returns>>

\* the caller takes the return value and is ready for its next call
FacadeReturn ==
    /\ pcall.op \in FacadeOps
    /\ pcall' = Idle
    /\ UNCHANGED <<trieVars, lockVars, stats, rules_storage_, facadeVars>>
    /\ UNCHANGED <<packet, beyond, result, response>>

\* the output buffer of cap bytes before a builder call
FreshBuffer(cap) == [i \in 1..cap |-> 0 - 1]

\* buffers from one byte too small for the question up to MaxSlack bytes
\* more than the question, and the empty buffer
CapacitiesFor(total_consumed) ==
    {0} \cup (total_consumed - 1 .. total_consumed + MaxSlack)

\* 192.168.1.100 for 300 s, and 10.0.0.1 for 0x01020304 s
Answers4 ==
    { [ip |-> <<192, 168, 1, 100>>, ttl |-> 300],
      [ip |-> <<10, 0, 0, 1>>, ttl |-> 16909060] }

\* the address bytes 01 02 .. 10 for 0x01020304 s
Answers6 == { [ip |-> [i \in 1..16 |-> i], ttl |-> 16909060] }

\* the arguments of a facade build call: a null pointer among them, or a
\* response buffer of cap bytes
BuildArgs(caps) ==
    { [null |-> TRUE, cap |-> 0] } \cup { [null |-> FALSE, cap |-> c] : c \in caps }

\* the empty buffer, and the buffers one byte too small and just large enough
\* for a packet of len bytes and an answer of answer_size bytes
BridgeCapacities(len, answer_size) ==
    {0, len + answer_size - 1, len + answer_size}

\* the facade build call r has completed: what it leaves to the caller
BuildCompletes(op, args, r) ==
    \E done \in {Completed(op, args, "unrecorded", r.ret, r.g, out_result,
                            r.len, r.response)} :
        /\ response' = r.response
        /\ response_len' = r.len
        /\ g_stats' = r.g
        /\ pcall' = done
        /\ returns' = Append(returns, done)
        /\ UNCHANGED <<trieVars, lockVars, stats, rules_storage_>>
        /\ UNCHANGED <<packet, beyond, result, out_result, g_initialized>>

\* xdp_dns_build_nxdomain(packet, len, response, cap, &response_len)
XdpDnsBuildNXDomain(args) ==
    /\ pcall = Idle
    /\ Len(returns) < MaxCalls
    /\ \E r \in {xdp_dns_build_nxdomain(args.null, packet, Len(packet),
                       FreshBuffer(args.cap), response_len, g_stats)} :
          BuildCompletes("xdp_dns_build_nxdomain", args, r)

\* xdp_dns_build_a_response(packet, len, ip, ttl, response, cap, &response_len)
XdpDnsBuildAResponse(a, args) ==
    /\ pcall = Idle
    /\ Len(returns) < MaxCalls
    /\ \E r \in {xdp_dns_build_a_response(args.null, packet, Len(packet),
                       a.ip, a.ttl, FreshBuffer(args.cap), response_len,
                       g_stats)} :
          BuildCompletes("xdp_dns_build_a_response", args, r)

\* xdp_dns_build_aaaa_response(packet, len, ip, ttl, response, cap,
\* &response_len)
XdpDnsBuildAAAAResponse(a, args) ==
    /\ pcall = Idle
    /\ Len(returns) < MaxCalls
    /\ \E r \in {xdp_dns_build_aaaa_response(args.null, packet, Len(packet),
                       a.ip, a.ttl, FreshBuffer(args.cap), response_len,
                       g_stats)} :
          BuildCompletes("xdp_dns_build_aaaa_response", args, r)

\* the record a completed builder call leaves
Built(kind, answer_size, a, cap, r) ==
    [op |-> "build", kind |-> kind, answer_size |-> answer_size,
     ip |-> a.ip, ttl |-> a.ttl, cap |-> cap, ret |-> r.ret,
     jumps |-> pcall.jumps]

NoAnswer == [ip |-> <<>>, ttl |-> 0]

\* DNSResponseBuilder::buildNXDomain(packet, len, result, response, cap)
\* after a successful parse
BuildNXDomain(cap) ==
    /\ pcall.op = "parse" /\ pcall.err = "Success"
    /\ UNCHANGED <<trieVars, lockVars, stats,
                 rules_storage_, facadeVars>>
    /\ LET r == buildNXDomain(packet, result, FreshBuffer(cap))
       IN  /\ response' = r.response
           /\ pcall' = Built("NXDomain", 0, NoAnswer, cap, r)
    /\ UNCHANGED <<packet, beyond, result>>

\* DNSResponseBuilder::buildRefused
BuildRefused(cap) ==
    /\ pcall.op = "parse" /\ pcall.err = "Success"
    /\ UNCHANGED <<trieVars, lockVars, stats,
                 rules_storage_, facadeVars>>
    /\ LET r == buildRefused(packet, result, FreshBuffer(cap))
       IN  /\ response' = r.response
           /\ pcall' = Built("Refused", 0, NoAnswer, cap, r)
    /\ UNCHANGED <<packet, beyond, result>>

\* DNSResponseBuilder::buildAResponse
BuildAResponse(a, cap) ==
    /\ pcall.op = "parse" /\ pcall.err = "Success"
    /\ UNCHANGED <<trieVars, lockVars, stats,
                 rules_storage_, facadeVars>>
    /\ LET r == buildAResponse(packet, result, a.ip, a.ttl, FreshBuffer(cap))
       IN  /\ response' = r.response
           /\ pcall' = Built("A", 16, a, cap, r)
    /\ UNCHANGED <<packet, beyond, result>>

\* DNSResponseBuilder::buildAAAAResponse
BuildAAAAResponse(a, cap) ==
    /\ pcall.op = "parse" /\ pcall.err = "Success"
    /\ UNCHANGED <<trieVars, lockVars, stats,
                 rules_storage_, facadeVars>>
    /\ LET r == buildAAAAResponse(packet, result, a.ip, a.ttl, FreshBuffer(cap))
       IN  /\ response' = r.response
           /\ pcall' = Built("AAAA", 28, a, cap, r)
    /\ UNCHANGED <<packet, beyond, result>>

\* what decodeName gives for a name, into a buffer of MAX_DOMAIN_LENGTH + 1
DecodedName(data, name_offset) ==
    LET d == decodeName(data, Len(data), name_offset, MAX_DOMAIN_LENGTH + 1, 0)
    IN  [err |-> d.err, name |-> d.out]

\* the caller parses the response just built (its first ret bytes) into a
\* second DNSParseResult and decodes the QNAME of the query and of the
\* response
ParseResponse ==
    /\ pcall.op = "build" /\ pcall.ret > 0
    /\ UNCHANGED <<trieVars, lockVars, stats,
                 rules_storage_, facadeVars>>
    /\ LET reply == SubSeq(response, 1, pcall.ret)
           r == parse(reply, pcall.ret, PriorResult)
       IN  pcall' = [op |-> "reparse", kind |-> pcall.kind, err |-> r.err,
                     reply |-> r.result,
                     jumps |-> pcall.jumps,
                     qname |-> DecodedName(packet, result.name_offset),
                     rname |-> DecodedName(reply, r.result.name_offset)]
    /\ UNCHANGED <<packet, beyond, result, response>>

ParseNext == Parse

BuildNext ==
    \/ Parse
    \/ \E cap \in CapacitiesFor(result.total_consumed) : BuildNXDomain(cap)
    \/ \E cap \in CapacitiesFor(result.total_consumed) : BuildRefused(cap)
    \/ \E a \in Answers4, cap \in CapacitiesFor(result.total_consumed) :
           BuildAResponse(a, cap)
    \/ \E a \in Answers6, cap \in CapacitiesFor(result.total_consumed) :
           BuildAAAAResponse(a, cap)
    \/ ParseResponse

WalkNext ==
    \/ Parse
    \/ \E o \in NameOffsets, b \in BufSizes : DecodeName(o, b)
    \/ \E o \in NameOffsets, d \in Candidates : DomainEquals(o, d)

SuffixNext == \E o \in NameOffsets, s \in Suffixes : DomainEndsWith(o, s)

FacadeNext ==
    \/ \E null_argument \in BOOLEAN : XdpDnsParse(null_argument)
    \/ XdpDnsGetStats
    \/ XdpDnsResetStats
    \/ FacadeReturn

BridgeNext ==
    \/ XdpDnsInit
    \/ XdpDnsCleanup
    \/ XdpDnsParse(FALSE)
    \/ \E args \in BuildArgs(BridgeCapacities(Len(packet), 0)) :
           XdpDnsBuildNXDomain(args)
    \/ \E a \in BridgeAnswers4,
          args \in BuildArgs(BridgeCapacities(Len(packet), 16)) :
           XdpDnsBuildAResponse(a, args)
    \/ \E a \in Answers6,
          args \in BuildArgs(BridgeCapacities(Len(packet), 28)) :
           XdpDnsBuildAAAAResponse(a, args)
    \/ FacadeReturn

\* the trie alone: no codec call is made
SpecTrie == TrieInit /\ [][TrieNext]_vars

\* DNSParser::parse alone, on every generated packet
SpecParse == CodecInit /\ [][ParseNext]_vars

\* parse, then one of the four builders, then parse of what was built
SpecBuild == CodecInit /\ [][BuildNext]_vars

\* the three name walks: parse, decodeName and domainEquals
SpecWalk == CodecInit /\ [][WalkNext]_vars

\* domainEndsWith alone, on every generated packet
SpecSuffix == CodecInit /\ [][SuffixNext]_vars

\* init, cleanup, xdp_dns_parse and the three build entry points called on
\* the same packet, up to MaxCalls parse and build calls
SpecBridge == BridgeInit /\ [][BridgeNext]_vars

\* xdp_dns_parse called on the same packet up to MaxCalls times between the
\* resets of the counters
SpecFacade == FacadeInit /\ [][FacadeNext]_vars

(***************************************************************************)
(* Properties of match. A completed match call is in call, with the trie   *)
(* it ran on still in root_ (match changes nothing).                       *)
(***************************************************************************)
\* the reversed label path of a domain, as match walks it
MatchPath(domain) == splitAndReverse(ToLowerStr(domain))

IsPrefixOf(p, q) == Len(p) <= Len(q) /\ SubSeq(q, 1, Len(p)) = p

MatchDone == call.op = "match" /\ Len(call.domain) > 0

\* the lengths of the prefixes of path p that are nodes of the trie
VisitedDepths(p) == {k \in 0..Len(p) : SubSeq(p, 1, k) \in DOMAIN root_}

\* those of them whose node holds a wildcard rule
WildcardDepths(p) ==
    {k \in VisitedDepths(p) : root_[SubSeq(p, 1, k)].wildcard_rule # nullptr}

MaxOf(S) == CHOOSE m \in S : \A k \in S : k <= m

ExactRuleAt(p) == p \in DOMAIN root_ /\ root_[p].exact_rule # nullptr

\* C1: precedence. When the node at the end of the full reversed label path
\* of a (non-empty) domain d holds an exact rule, match(d) returns that exact
\* rule, whatever wildcard rules the node and its ancestors hold.
C1_ExactRuleWins ==
    MatchDone =>
        LET p == MatchPath(call.domain)
        IN  ExactRuleAt(p) => call.ret = root_[p].exact_rule

\* a match that returned the exact rule of a node that also holds another
\* rule as its wildcard rule
C1_Witness ==
    /\ MatchDone
    /\ LET p == MatchPath(call.domain)
       IN  /\ ExactRuleAt(p)
           /\ root_[p].wildcard_rule \in Rules \ {root_[p].exact_rule}
           /\ Len(p) >= 1
           /\ call.ret = root_[p].exact_rule

\* C2: soundness. A rule returned by match(d) is stored as the exact rule of
\* the node at d's own path, or as the wildcard rule of a node on d's path
\* (d's own node or a label-aligned ancestor): nothing leaks from an exact
\* rule of an ancestor, nor from any rule of a node off the path.
C2_MatchSound ==
    (MatchDone /\ call.ret # nullptr) =>
        LET p == MatchPath(call.domain)
        IN  \/ p \in DOMAIN root_ /\ root_[p].exact_rule = call.ret
            \/ \E k \in VisitedDepths(p) :
                   root_[SubSeq(p, 1, k)].wildcard_rule = call.ret

\* a match below a node that holds an exact rule: the wildcard of that node
\* is returned, the exact rule of the ancestor is not, and a rule is stored
\* off the path
C2_Witness ==
    /\ MatchDone
    /\ LET p == MatchPath(call.domain)
       IN  /\ Len(p) = 2
           /\ ExactRuleAt(SubSeq(p, 1, 1))
           /\ call.ret = root_[SubSeq(p, 1, 1)].wildcard_rule
           /\ call.ret \in Rules \ {root_[SubSeq(p, 1, 1)].exact_rule}

\* a match of a domain none of whose rules is on the path: a sibling holds a
\* rule and match returns none
C2_NoLeakSeen ==
    /\ MatchDone
    /\ call.ret = nullptr
    /\ \E q \in DOMAIN root_ :
           /\ Len(q) = Len(MatchPath(call.domain))
           /\ q # MatchPath(call.domain)
           /\ root_[q].wildcard_rule # nullptr

\* C3: wildcard coverage. insert("*.D", r) stores r as the wildcard rule of
\* D's node, and while it is stored there match returns r for D and for every
\* domain made by prepending labels to D, unless an exact rule sits at the
\* end of that domain's path or a wildcard rule sits deeper on it.
C3_WildcardCoverage ==
    /\ (call.op = "insert" /\ call.rule # nullptr /\ IsWildcardForm(call.domain))
           => root_[PathOf(call.domain)].wildcard_rule = call.rule
    /\ MatchDone =>
           LET p == MatchPath(call.domain)
           IN  \A q \in DOMAIN root_ :
                   ( /\ root_[q].wildcard_rule # nullptr
                     /\ IsPrefixOf(q, p)
                     /\ ~ExactRuleAt(p)
                     /\ \A k \in WildcardDepths(p) : k <= Len(q) )
                   => call.ret = root_[q].wildcard_rule

\* a match of a.D (one label prepended) answered by the wildcard rule of D,
\* where D's node has no child for the label
C3_Witness ==
    /\ MatchDone
    /\ LET p == MatchPath(call.domain)
       IN  /\ Len(p) = 2
           /\ p \notin DOMAIN root_
           /\ SubSeq(p, 1, 1) \in DOMAIN root_
           /\ root_[SubSeq(p, 1, 1)].wildcard_rule # nullptr
           /\ call.ret = root_[SubSeq(p, 1, 1)].wildcard_rule

\* C4: the most specific wildcard wins. When no exact rule sits at the end of
\* d's path, match(d) returns the wildcard rule of the deepest visited node
\* that holds one (none when no visited node holds one).
C4_DeepestWildcardWins ==
    MatchDone =>
        LET p == MatchPath(call.domain)
            W == WildcardDepths(p)
        IN  ~ExactRuleAt(p) =>
                call.ret = IF W = {} THEN nullptr
                           ELSE root_[SubSeq(p, 1, MaxOf(W))].wildcard_rule

\* a match whose path holds two different wildcard rules, stopped by a
\* missing child: the deeper rule is returned
C4_Witness ==
    /\ MatchDone
    /\ LET p == MatchPath(call.domain)
           W == WildcardDepths(p)
       IN  /\ Cardinality(W) >= 2
           /\ p \notin DOMAIN root_
           /\ \E k \in W : root_[SubSeq(p, 1, k)].wildcard_rule # call.ret
           /\ call.ret = root_[SubSeq(p, 1, MaxOf(W))].wildcard_rule

SameIgnoringCase(x, y) == ToLowerStr(x) = ToLowerStr(y)

\* C5: case-insensitivity. match(d) equals match(ASCII-upper(d)) in every
\* trie state; and right after a rule r is inserted under a domain, every
\* case variant of that domain matches r (for a wildcard "*.D": every case
\* variant of D matches r, or the exact rule of D's node when it holds one).
C5_CaseInsensitive ==
    /\ call.op = "match" => call.ret = match(root_, ToUpperStr(call.domain))
    /\ (call.op = "insert" /\ call.rule # nullptr /\ Len(call.domain) > 0) =>
           \A d \in Domains :
               SameIgnoringCase(d, call.domain) =>
                   IF IsWildcardForm(call.domain)
                   THEN LET n == root_[PathOf(call.domain)]
                        IN  match(root_, Substr2(d)) =
                                IF n.exact_rule # nullptr THEN n.exact_rule
                                                          ELSE call.rule
                   ELSE match(root_, d) = call.rule

\* a match of a mixed-case domain that returned a rule
C5_Witness ==
    /\ MatchDone
    /\ call.ret # nullptr
    /\ call.domain # ToUpperStr(call.domain)
    /\ call.domain # ToLowerStr(call.domain)


(***************************************************************************)
(* Properties of the wire codec, stated on the call that has just          *)
(* completed.                                                              *)
(***************************************************************************)
ParseDone == pcall.op = "parse"
ParseAccepted == ParseDone /\ pcall.err = "Success"
ParseFailed == ParseDone /\ pcall.err # "Success"
WalkDone == pcall.op \in {"parse", "decodeName", "domainEquals"}

\* C6: whenever parse returns an error, every field of the DNSParseResult
\* passed in still has the value it had before the call.
C6_NoPartialMutation == ParseFailed => result = pcall.before

\* the walk came to the same offset twice
Cyclic(walk) ==
    \E i, j \in 1..Len(walk) : i < j /\ walk[i].at = walk[j].at

\* a packet long enough and with a question, whose QNAME starts with C0 0C
SelfPointerPacket ==
    /\ Len(packet) >= 17
    /\ U16At(packet, 4) # 0
    /\ packet[13] = 192
    /\ packet[14] = 12

\* C7: every name walk (parse, decodeName, domainEquals) returns, having
\* followed at most 128 pointers, each literal label having moved the cursor
\* strictly forward; parse returns PointerLoop on a QNAME that starts with the
\* self-pointer C0 0C and on every walk that comes back to an offset it has
\* visited.
C7_NameScanTerminates ==
    WalkDone =>
        /\ pcall.returned
        /\ pcall.jumps <= 128
        /\ \A i \in 1..Len(pcall.walk) :
               pcall.walk[i].kind = "label" => pcall.walk[i].to > pcall.walk[i].at
        /\ (ParseDone /\ SelfPointerPacket) => pcall.err = "PointerLoop"
        /\ (ParseDone /\ Cyclic(pcall.walk)) => pcall.err = "PointerLoop"

\* parse has run into the jump cap on a cycle that goes through a label
C7_Witness ==
    /\ ParseDone
    /\ pcall.err = "PointerLoop"
    /\ pcall.jumps = 128
    /\ Cyclic(pcall.walk)
    /\ \E i \in 1..Len(pcall.walk) : pcall.walk[i].kind = "label"

\* C8: parse, decodeName and domainEquals never read a packet byte at an
\* index greater than or equal to packet_len.
C8_ReadsWithinPacket ==
    WalkDone => \A i \in pcall.reads : i < Len(packet)

\* C9: for every packet parse accepts, compression pointers included,
\* name_offset + name_wire_len + 4 <= packet_len.
C9_WireViewBound ==
    ParseAccepted =>
        result.name_offset + result.name_wire_len + 4 <= Len(packet)

\* where the QNAME ends in place: the byte after the terminating zero, or
\* the byte after the first pointer word; scanned from the packet bytes alone
RECURSIVE NameEndInPlace(_, _)
NameEndInPlace(data, o) ==
    IF o >= Len(data) THEN Len(data) + 1
    ELSE IF data[o + 1] = 0 THEN o + 1
    ELSE IF data[o + 1] >= 192 THEN o + 2
    ELSE NameEndInPlace(data, o + 1 + data[o + 1])

\* C10: for every packet parse accepts, 17 <= question_end <= len,
\* total_consumed = question_end, question_end is 4 bytes past the place the
\* QNAME ends in the packet, and the packet bytes are what they were before
\* the call.
C10_QuestionEnd ==
    ParseAccepted =>
        /\ 17 <= result.question_end
        /\ result.question_end <= Len(packet)
        /\ result.total_consumed = result.question_end
        /\ result.question_end = NameEndInPlace(packet, 12) + 4
        /\ packet = pcall.data

\* parse has accepted a packet whose QNAME goes through a pointer
C10_Witness ==
    /\ ParseAccepted
    /\ pcall.jumps >= 1
    /\ result.question_end = NameEndInPlace(packet, 12) + 4

\* where the cursor of the walk stood when the walk ended
WalkCursor(walk) == IF Len(walk) = 0 THEN 12 ELSE walk[Len(walk)].to

\* C11: parse returns PacketTooShort below 17 bytes; InvalidHeader when
\* qd_count is 0; and, where the name walk stops before the jump cap,
\* TruncatedMessage when the packet ends at the cursor, inside the pointer
\* word or the label at the cursor, or less than 4 bytes after the name end,
\* PointerLoop when the pointer at the cursor targets an offset >= len,
\* InvalidLabel when the byte at the cursor has top bits 10 or 01, and
\* Success only when the cursor is on the terminator with 4 bytes after the
\* name end.
C11_ErrorClassification ==
    ParseDone =>
        LET len == Len(packet)
            o == WalkCursor(pcall.walk)
            b == packet[o + 1]
        IN  /\ len < 17 => pcall.err = "PacketTooShort"
            /\ (len >= 17 /\ U16At(packet, 4) = 0) => pcall.err = "InvalidHeader"
            /\ (len >= 17 /\ U16At(packet, 4) # 0 /\ pcall.jumps < 128) =>
                  /\ o >= len => pcall.err = "TruncatedMessage"
                  /\ (o < len /\ b >= 192 /\ o + 1 >= len) =>
                         pcall.err = "TruncatedMessage"
                  /\ (o < len /\ b >= 192 /\ o + 1 < len) =>
                         /\ (b - 192) * 256 + packet[o + 2] >= len
                         /\ pcall.err = "PointerLoop"
                  /\ (o < len /\ b \in 64..191) => pcall.err = "InvalidLabel"
                  /\ (o < len /\ b \in 1..63) =>
                         /\ o + 1 + b > len
                         /\ pcall.err = "TruncatedMessage"
                  /\ (o < len /\ b = 0) =>
                         IF NameEndInPlace(packet, 12) + 4 > len
                         THEN pcall.err = "TruncatedMessage"
                         ELSE pcall.err = "Success"

\* parse has answered InvalidLabel on a length byte with top bits 10
C11_Witness ==
    /\ ParseDone
    /\ pcall.err = "InvalidLabel"
    /\ WalkCursor(pcall.walk) < Len(packet)
    /\ packet[WalkCursor(pcall.walk) + 1] = 128

\* the wire length of a name of literal labels (1..63 bytes each) and a zero
\* byte that starts at o, or -1 when the bytes at o are no such name
RECURSIVE LiteralNameWireLen(_, _)
LiteralNameWireLen(data, o) ==
    IF o >= Len(data) THEN -1
    ELSE IF data[o + 1] = 0 THEN 1
    ELSE IF data[o + 1] > 63 THEN -1
    ELSE LET rest == LiteralNameWireLen(data, o + 1 + data[o + 1])
         IN  IF rest < 0 THEN -1 ELSE 1 + data[o + 1] + rest

\* header with qd_count >= 1, literal labels, zero byte, qtype and qclass
WellFormedQuery(data) ==
    /\ Len(data) >= 12
    /\ data[5] * 256 + data[6] >= 1
    /\ LiteralNameWireLen(data, 12) > 0
    /\ Len(data) = 12 + LiteralNameWireLen(data, 12) + 4

\* C12: parse of a well-formed uncompressed query succeeds with id and flags
\* the big-endian words at 0 and 2, is_query true exactly when bit 15 of
\* flags is 0, name_offset 12, name_wire_len the sum of 1 + |label| plus 1,
\* qtype and qclass the two words after the terminator, and question_end =
\* 12 + name_wire_len + 4 (33 for www.example.com).
C12_WellFormedQuery ==
    (ParseDone /\ WellFormedQuery(packet)) =>
        LET w == LiteralNameWireLen(packet, 12)
        IN  /\ pcall.err = "Success"
            /\ result.id = packet[1] * 256 + packet[2]
            /\ result.flags = packet[3] * 256 + packet[4]
            /\ result.is_query = (packet[3] < 128)
            /\ result.name_offset = 12
            /\ result.name_wire_len = w
            /\ result.qtype = packet[12 + w + 1] * 256 + packet[12 + w + 2]
            /\ result.qclass = packet[12 + w + 3] * 256 + packet[12 + w + 4]
            /\ result.question_end = 12 + w + 4
            /\ packet = SimpleQuery => result.question_end = 33

\* parse has accepted the query for www.example.com
C12_Witness ==
    /\ ParseDone
    /\ packet = SimpleQuery
    /\ result.id = 4660
    /\ result.name_wire_len = 17
    /\ result.question_end = 33

(***************************************************************************)
(* Properties of the response builders, stated on the builder call that    *)
(* has just completed: packet is the query, result its parse, response the *)
(* output buffer.                                                          *)
(***************************************************************************)
BuildDone == pcall.op = "build"
BuildSucceeded == BuildDone /\ pcall.ret > 0

\* the big-endian word at offset o of the output buffer
ResponseWord(o) == response[o + 1] * 256 + response[o + 2]

\* bit k of x
BitOf(x, k) == (x \div (2 ^ k)) % 2

C14_BuilderCounts ==
    BuildSucceeded =>
        /\ ResponseWord(6) = (IF pcall.kind \in {"A", "AAAA"} THEN 1 ELSE 0)
        /\ ResponseWord(8) = 0
        /\ ResponseWord(10) = 0

\* C15: a builder returns 0 and leaves every byte of the output buffer
\* unwritten exactly when the capacity is below total_consumed +
\* answer_size; otherwise it returns total_consumed + answer_size and every
\* index at or above that length is unwritten.
C15_BuilderLength ==
    BuildDone =>
        LET need == result.total_consumed + pcall.answer_size
        IN  /\ Len(response) = pcall.cap
            /\ IF pcall.cap < need
               THEN /\ pcall.ret = 0
                    /\ \A i \in 1..pcall.cap : response[i] = 0 - 1
               ELSE /\ pcall.ret = need
                    /\ \A i \in need + 1 .. pcall.cap : response[i] = 0 - 1
                    /\ \A i \in 1..need : response[i] \in 0..255

\* an AAAA build has been refused for a buffer one byte short, and nothing
\* was written
C15_Witness ==
    /\ BuildDone
    /\ pcall.kind = "AAAA"
    /\ pcall.cap = result.total_consumed + 27
    /\ pcall.ret = 0
    /\ \A i \in 1..pcall.cap : response[i] = 0 - 1

\* C16: in every successful builder output the qd_count word and bytes
\* 12..total_consumed-1 are the query's; for A and AAAA the bytes from
\* total_consumed on are C0 0C, the type, class 00 01, the TTL big-endian,
\* RDLENGTH and the address bytes as given (49 bytes ending in C0 0C 00 01
\* 00 01 00 00 01 2C 00 04 C0 A8 01 64 for www.example.com, 192.168.1.100,
\* ttl 300).
C16_BuilderBody ==
    BuildSucceeded =>
        LET tc == result.total_consumed
            rr == SubSeq(response, tc + 1, pcall.ret)
        IN  /\ response[5] = packet[5] /\ response[6] = packet[6]
            /\ \A i \in 13..tc : response[i] = packet[i]
            /\ pcall.kind \in {"A", "AAAA"} =>
                  /\ SubSeq(rr, 1, 2) = <<192, 12>>
                  /\ SubSeq(rr, 3, 6) =
                         (IF pcall.kind = "A" THEN <<0, 1, 0, 1>> ELSE <<0, 28, 0, 1>>)
                  /\ rr[7] * 16777216 + rr[8] * 65536 + rr[9] * 256 + rr[10] = pcall.ttl
                  /\ SubSeq(rr, 11, 12) =
                         (IF pcall.kind = "A" THEN <<0, 4>> ELSE <<0, 16>>)
                  /\ SubSeq(rr, 13, Len(rr)) = pcall.ip
            /\ (/\ packet = SimpleQuery /\ pcall.kind = "A"
                /\ pcall.ip = <<192, 168, 1, 100>> /\ pcall.ttl = 300) =>
                  /\ pcall.ret = 49
                  /\ rr = <<192, 12, 0, 1, 0, 1, 0, 0, 1, 44, 0, 4, 192, 168, 1, 100>>

\* the A response for www.example.com, 192.168.1.100, ttl 300 has been built
C16_Witness ==
    /\ BuildSucceeded
    /\ packet = SimpleQuery
    /\ pcall.kind = "A"
    /\ pcall.ip = <<192, 168, 1, 100>>
    /\ pcall.ttl = 300
    /\ pcall.ret = 49

\* C17: parsing the output of a successful A build succeeds and gives the
\* decoded qname, the qtype and the qclass that parsing the query gave,
\* also when the query's QNAME uses a compression pointer.
C17_RoundTrip ==
    (pcall.op = "reparse" /\ pcall.kind = "A") =>
        /\ pcall.err = "Success"
        /\ pcall.rname = pcall.qname
        /\ pcall.reply.qtype = result.qtype
        /\ pcall.reply.qclass = result.qclass

(***************************************************************************)
(* Properties of the trie lock.                                            *)
(***************************************************************************)
\* thread t is inside the critical section of op
InsideOp(t, op) == pc[t] # Idle /\ pc[t].at = "inside" /\ pc[t].op = op

InsideAny(t) == pc[t] # Idle /\ pc[t].at = "inside"

\* C18: while a thread is inside the critical section of insert, remove or
\* clear, no other thread is inside the critical section of any of the five
\* operations.
C18_WriterExcludesAll ==
    \A t \in Threads :
        (\E op \in {"insert", "remove", "clear"} : InsideOp(t, op)) =>
            \A u \in Threads \ {t} : ~InsideAny(u)

\* two threads are inside match and size at the same time while a third
\* waits for the lock of insert
C18_Witness ==
    \E t, u, w \in Threads :
        /\ t # u
        /\ InsideOp(t, "match")
        /\ InsideOp(u, "size")
        /\ pc[w] # Idle /\ pc[w].op = "insert" /\ pc[w].at = "lock"

(***************************************************************************)
(* Properties of the FilterEngine.                                         *)
(***************************************************************************)
Counters == {"allowed", "blocked", "redirected", "logged"}

\* C19: a completed check has added 1 to total_checks and 1 to exactly one
\* of allowed, blocked, redirected, logged: allowed when no rule matches or
\* the matched rule says Allow, else the counter of the rule's action; it
\* returns that action (Allow and no rule when nothing matches); and
\* total_checks = allowed + blocked + redirected + logged throughout.
C19_CheckAccounting ==
    /\ stats.total_checks =
           stats.allowed + stats.blocked + stats.redirected + stats.logged
    /\ call.op = "check" =>
           LET m == match(root_, call.domain)
               action == IF m = nullptr THEN "Allow" ELSE RuleAction(m)
               counter == CASE action = "Allow" -> "allowed"
                            [] action = "Block" -> "blocked"
                            [] action = "Redirect" -> "redirected"
                            [] action = "Log" -> "logged"
           IN  /\ stats.total_checks = call.before.total_checks + 1
               /\ stats[counter] = call.before[counter] + 1
               /\ \A c \in Counters \ {counter} : stats[c] = call.before[c]
               /\ call.action = action
               /\ call.rule = m

\* a check has answered Log after an earlier check was allowed
C19_Witness ==
    /\ call.op = "check"
    /\ call.action = "Log"
    /\ stats.logged = 1
    /\ stats.allowed >= 1
    /\ stats.total_checks = stats.allowed + 1

(***************************************************************************)
(* Frame of DomainTrie::insert.                                            *)
(***************************************************************************)
\* the step is a completed insert of a domain whose label list is empty
\* after the "*." is stripped and the empty labels are dropped
EmptyLabelInsertStep ==
    /\ call = Idle
    /\ call'.op = "insert"
    /\ PathOf(call'.domain) = <<>>

\* C20: an insert whose label list is empty ("", ".", "*..") leaves the
\* trie as it was: rule_count_ keeps its value and match gives for every
\* domain what it gave before; and match of the empty domain returns none.
C20_EmptyLabelInsertNoOp ==
    /\ [](call.op = "match" /\ call.domain = <<>> => call.ret = nullptr)
    /\ [][EmptyLabelInsertStep =>
            /\ rule_count_' = rule_count_
            /\ \A d \in Domains : match(root_', d) = match(root_, d)]_vars

(***************************************************************************)
(* size() and remove of the DomainTrie.                                    *)
(***************************************************************************)
\* the slots of the trie that hold a rule: (path of the node, kind of slot)
HeldSlots(trie) ==
    {<<p, "exact">> : p \in {q \in DOMAIN trie : trie[q].exact_rule # nullptr}}
    \cup
    {<<p, "wildcard">> :
        p \in {q \in DOMAIN trie : trie[q].wildcard_rule # nullptr}}

\* C21: size() equals the number of rules the trie holds: in every state
\* reached by insert, remove and clear (a second insert at the same domain
\* and kind included) rule_count_, which size() returns, is the number of
\* exact and wildcard slots that hold a rule.
C21_SizeCountsRules ==
    /\ rule_count_ = Cardinality(HeldSlots(root_))
    /\ call.op = "size" => call.ret = Cardinality(HeldSlots(root_))
    /\ call.op = "clear" => rule_count_ = 0

\* the exact or wildcard slot of a node
SlotOf(n, is_wildcard) ==
    IF is_wildcard THEN n.wildcard_rule ELSE n.exact_rule

\* the rule in the slot that d designates: the wildcard slot of D for "*.D",
\* the exact slot of d otherwise, after lower-casing; none when the node
\* does not exist or d is the empty string
DesignatedRule(trie, d) ==
    IF Len(d) # 0 /\ PathOf(d) \in DOMAIN trie
    THEN SlotOf(trie[PathOf(d)], IsWildcardForm(d))
    ELSE nullptr

\* the step is a completed remove
RemoveStep == call = Idle /\ call'.op = "remove"

DecodeDone == pcall.op = "decodeName" /\ pcall.returned

\* the text of a walked name: the bytes of the labels the walk passed, in
\* ASCII lower case, joined by dots
RECURSIVE WalkText(_, _)
WalkText(walk, i) ==
    IF i > Len(walk) THEN <<>>
    ELSE LET st == walk[i]
             rest == WalkText(walk, i + 1)
             label == [k \in 1..(st.to - st.at - 1) |->
                          tolower(ByteAt(packet, st.at + k))]
         IN  IF st.kind # "label" THEN rest
             ELSE IF rest = <<>> THEN label
             ELSE label \o <<Dot>> \o rest

\* a buffer no name of the packet can fill: a walk makes at most WalkFuel
\* iterations and a label is shorter than 0xC0 bytes
NoLimit == WalkFuel(Len(packet)) * 192

\* C23: a decodeName that succeeds leaves in the output exactly the labels
\* of the walked name, lower-cased and joined by single dots, with out_len
\* its length; a name whose text is longer than buf_size gives
\* BufferTooSmall and one that fits gives Success; and no call writes the
\* output at an index >= buf_size.
C23_DecodeOutput ==
    DecodeDone =>
        LET roomy == decodeName(packet, Len(packet), pcall.name_offset,
                                NoLimit, 0)
            text == WalkText(roomy.walk, 1)
        IN  /\ Len(pcall.out) <= pcall.buf_size
            /\ pcall.nul => Len(pcall.out) < pcall.buf_size
            /\ pcall.err = "Success" =>
                 /\ pcall.out = WalkText(pcall.walk, 1)
                 /\ pcall.out_len = Len(pcall.out)
            /\ roomy.err = "Success" =>
                 IF Len(text) <= pcall.buf_size
                 THEN pcall.err = "Success" /\ pcall.out = text
                 ELSE pcall.err = "BufferTooSmall"

\* a name of two labels reached through a pointer, with an upper-case
\* letter on the wire, was decoded into a buffer it fits in
C23_Witness ==
    /\ DecodeDone
    /\ pcall.err = "Success"
    /\ pcall.jumps >= 1
    /\ pcall.out = <<97, Dot, 97>>
    /\ \E i \in 1..Len(pcall.walk) :
          pcall.walk[i].kind = "label" /\ ByteAt(packet, pcall.walk[i].at + 1) = 65

(***************************************************************************)
(* domainEquals against the labels of the QNAME.                           *)
(***************************************************************************)
\* the dot-separated segments of a candidate, empty ones kept; the empty
\* candidate has none
RECURSIVE SplitDots(_, _, _)
SplitDots(s, i, current) ==
    IF i > Len(s) THEN <<current>>
    ELSE IF s[i] = Dot THEN <<current>> \o SplitDots(s, i + 1, <<>>)
    ELSE SplitDots(s, i + 1, Append(current, s[i]))

Segments(s) == IF s = <<>> THEN <<>> ELSE SplitDots(s, 1, <<>>)

\* the labels a walk passed, in ASCII lower case
RECURSIVE WalkLabels(_, _)
WalkLabels(walk, i) ==
    IF i > Len(walk) THEN <<>>
    ELSE LET st == walk[i]
             label == [k \in 1..(st.to - st.at - 1) |->
                          tolower(ByteAt(packet, st.at + k))]
         IN  IF st.kind = "label" THEN <<label>> \o WalkLabels(walk, i + 1)
             ELSE WalkLabels(walk, i + 1)

\* the QNAME of the packet as parse walks it, when parse accepts the packet
AcceptedQName ==
    LET r == parse(packet, Len(packet), PriorResult)
    IN  [accepted |-> r.err = "Success", labels |-> WalkLabels(r.name.walk, 1),
         jumps |-> r.name.jumps]

EqualsDone ==
    /\ pcall.op = "domainEquals"
    /\ pcall.returned
    /\ pcall.name_offset = DNS_HEADER_SIZE

\* C24: for every QNAME that parse accepts, with or without a compression
\* pointer, domainEquals returns true exactly when the dot-separated
\* segments of the candidate equal the wire labels one for one, ignoring
\* ASCII case.
C24_DomainEquals ==
    EqualsDone /\ AcceptedQName.accepted =>
        (pcall.ret = (Segments(ToLowerStr(pcall.domain)) = AcceptedQName.labels))

\* the same for the QNAMEs in which no pointer is followed
C24_DomainEqualsLiteral ==
    EqualsDone /\ AcceptedQName.accepted /\ AcceptedQName.jumps = 0 =>
        (pcall.ret = (Segments(ToLowerStr(pcall.domain)) = AcceptedQName.labels))

(***************************************************************************)
(* domainEndsWith against the decoded name.                                *)
(***************************************************************************)
EndsWithDone == pcall.op = "domainEndsWith" /\ pcall.returned

\* t is a tail of s
IsTailOf(t, s) ==
    Len(t) <= Len(s) /\ SubSeq(s, Len(s) - Len(t) + 1, Len(s)) = t

\* C25: domainEndsWith returns true exactly when the name decodes and,
\* ignoring ASCII case, the suffix is the whole decoded name or the decoded
\* name ends with "." followed by the suffix; so a suffix that starts inside
\* a label gives false, and so does a name that cannot be decoded.
C25_SuffixOnLabelBoundary ==
    EndsWithDone =>
        LET d == DecodedName(packet, pcall.name_offset)
            name == ToLowerStr(d.name)
            suffix == ToLowerStr(pcall.suffix)
        IN  pcall.ret = (/\ d.err = "Success"
                         /\ \/ suffix = name
                            \/ IsTailOf(<<Dot>> \o suffix, name))

\* "ample.com" was refused against www.example.com
C25_Witness ==
    /\ EndsWithDone
    /\ packet = SimpleQuery
    /\ pcall.name_offset = DNS_HEADER_SIZE
    /\ pcall.suffix = <<97, 109, 112, 108, 101, Dot, 99, 111, 109>>
    /\ ~pcall.ret

(***************************************************************************)
(* The facade: xdp_dns_parse.                                              *)
(***************************************************************************)
FacadeDone == pcall.op = "xdp_dns_parse"

\* the QR bit of the header of the packet
QRBitSet == Len(packet) >= DNS_HEADER_SIZE /\ BitOf(U16At(packet, 2), 15) = 1

\* C26: for every datagram whose header has the QR bit set xdp_dns_parse
\* returns NotDnsQuery (-5), writes no field of out_result and increments
\* neither packets_parsed nor parse_errors.
C26_FacadeNotQuery ==
    FacadeDone /\ QRBitSet =>
        /\ pcall.ret = XDP_DNS_ERR_NOT_DNS_QUERY
        /\ out_result = pcall.out_before
        /\ g_stats.packets_parsed = pcall.g_before.packets_parsed
        /\ g_stats.parse_errors = pcall.g_before.parse_errors

\* the same for the datagrams with the QR bit set that the parser accepts
C26_FacadeNotQueryWellFormed ==
    FacadeDone /\ QRBitSet /\ pcall.parse = "Success" =>
        /\ pcall.ret = XDP_DNS_ERR_NOT_DNS_QUERY
        /\ out_result = pcall.out_before
        /\ g_stats.packets_parsed = pcall.g_before.packets_parsed
        /\ g_stats.parse_errors = pcall.g_before.parse_errors

\* the parser rejects the packet
Malformed == parse(packet, Len(packet), PriorResult).err # "Success"

\* C27: every xdp_dns_parse call on a datagram the parser rejects, of any
\* length, returns a non-Ok status, increments parse_errors by exactly 1 and
\* leaves packets_parsed unchanged.
C27_FacadeCountsMalformed ==
    FacadeDone /\ Malformed =>
        /\ pcall.ret # XDP_DNS_OK
        /\ g_stats.parse_errors = pcall.g_before.parse_errors + 1
        /\ g_stats.packets_parsed = pcall.g_before.packets_parsed

\* the same for the rejected datagrams of at least 12 bytes
C27_FacadeCountsMalformedHeader ==
    FacadeDone /\ Malformed /\ Len(packet) >= DNS_HEADER_SIZE
               /\ ~pcall.args.null =>
        /\ pcall.ret # XDP_DNS_OK
        /\ g_stats.parse_errors = pcall.g_before.parse_errors + 1
        /\ g_stats.packets_parsed = pcall.g_before.packets_parsed

(***************************************************************************)
(* addRule against concurrent checks.                                      *)
(***************************************************************************)
StoredRules == {rules_storage_[i] : i \in 1..Len(rules_storage_)}

\* every rule reference of a trie node, every rule a check has matched and
\* every matched_rule returned refers to a stored rule
ReferencesStored ==
    /\ \A p \in DOMAIN root_ :
          /\ root_[p].exact_rule \in StoredRules \cup {nullptr}
          /\ root_[p].wildcard_rule \in StoredRules \cup {nullptr}
    /\ \A t \in Threads :
          pc[t].op = "check" /\ pc[t].at = "account" =>
              pc[t].rule \in StoredRules \cup {nullptr}
    /\ call.op = "check" => call.rule \in StoredRules \cup {nullptr}

\* a completed check returns what a match gave when the check was entered,
\* or a rule whose insert ran during the check, with that rule's action
CheckSeesOldOrNew ==
    call.op = "check" =>
        /\ call.rule \in {call.pre} \cup call.during
        /\ call.action =
              IF call.rule = nullptr THEN "Allow" ELSE RuleAction(call.rule)

\* C28: in every interleaving of addRule and check calls the rule copy is in
\* the storage before the trie refers to it and the storage only grows at
\* its end, so every reference of a trie node and every matched_rule of a
\* check is a stored rule; and a check that runs beside an addRule returns
\* the result from before the insert or the rule being added.
C28_PublishAfterStore ==
    /\ [](ReferencesStored /\ CheckSeesOldOrNew)
    /\ [][IsPrefixOf(rules_storage_, rules_storage_')]_vars

\* a check returned the rule an addRule inserted while the check was running,
\* where a match at its entry would have found nothing
C28_Witness ==
    /\ call.op = "check"
    /\ call.pre = nullptr
    /\ call.rule \in call.during
    /\ call.rule \in StoredRules

(***************************************************************************)
(* name_wire_len of an accepted QNAME.                                     *)
(***************************************************************************)
\* C29: for every QNAME that parse accepts, name_wire_len is the number of
\* bytes the name occupies in place from name_offset on: the literal labels
\* before the first pointer plus the terminating zero, or plus the two bytes
\* of the first pointer; so name_offset + name_wire_len = question_end - 4.
C29_WireLenInPlace ==
    ParseAccepted =>
        /\ result.name_wire_len =
              NameEndInPlace(packet, result.name_offset) - result.name_offset
        /\ result.name_offset + result.name_wire_len = result.question_end - 4

\* the same for the accepted QNAMEs in which no pointer is followed
C29_WireLenLiteral ==
    ParseAccepted /\ pcall.jumps = 0 =>
        /\ result.name_wire_len =
              NameEndInPlace(packet, result.name_offset) - result.name_offset
        /\ result.name_offset + result.name_wire_len = result.question_end - 4

(***************************************************************************)
(* The jump cap of parseName.                                              *)
(***************************************************************************)
\* the number of pointers of the chain the packet is, if it is one
ChainLength == (Len(packet) - DNS_HEADER_SIZE - 5) \div 2

IsChainPacket ==
    /\ Len(packet) >= DNS_HEADER_SIZE + 5
    /\ packet = PointerChainQuery(ChainLength)

\* C30: an otherwise well-formed QNAME whose walk follows k pointers before
\* it reaches its terminating zero is accepted by parse for every k <= 128;
\* PointerLoop from the jump counter is for walks beyond the cap.
C30_JumpCapBoundary ==
    ParseDone /\ IsChainPacket /\ ChainLength <= MAX_LABELS =>
        /\ pcall.err = "Success"
        /\ pcall.jumps = ChainLength

\* the same for the chains of fewer pointers than the cap
C30_BelowJumpCap ==
    ParseDone /\ IsChainPacket /\ ChainLength < MAX_LABELS =>
        /\ pcall.err = "Success"
        /\ pcall.jumps = ChainLength

(***************************************************************************)
(* The counters under concurrent check, getStats and resetStats.           *)
(***************************************************************************)
ActionSum(st) == st.allowed + st.blocked + st.redirected + st.logged

\* C31: in every interleaving of check, getStats and resetStats, a getStats
\* snapshot taken while no check is in progress has total_checks = allowed
\* + blocked + redirected + logged, and in every reachable state allowed +
\* blocked + redirected + logged <= total_checks.
C31_CountersConsistent ==
    /\ ActionSum(stats) <= stats.total_checks
    /\ \A t \in Threads :
          pc[t].op = "getStats" /\ pc[t].at = Len(counterOrder) + 1
                                /\ pc[t].quiet =>
             pc[t].snapshot.total_checks = ActionSum(pc[t].snapshot)


(***************************************************************************)
(* The facade's parse counters.                                            *)
(***************************************************************************)
\* the completed xdp_dns_parse calls since the last reset that returned ret
ParseReturns(ret) ==
    {i \in 1..Len(returns) :
        returns[i].op = "xdp_dns_parse" /\ returns[i].ret = ret}

\* what a completed call added to a counter
Added(done, counter) == done.g[counter] - done.g_before[counter]

\* C32: after any sequence of completed xdp_dns_parse calls since the last
\* reset, packets_received = packets_parsed + parse_errors + the number of
\* calls that returned NotDnsQuery; each call increments packets_received at
\* most once and at most one of packets_parsed and parse_errors,
\* packets_parsed exactly when it returns Ok; calls rejected as InvalidParam
\* change no counter.
C32_ParseCountersConserved ==
    /\ g_stats.packets_received =
          g_stats.packets_parsed + g_stats.parse_errors
          + Cardinality(ParseReturns(XDP_DNS_ERR_NOT_DNS_QUERY))
    /\ FacadeDone =>
          /\ Added(pcall, "packets_received") \in {0, 1}
          /\ Added(pcall, "packets_parsed") \in {0, 1}
          /\ Added(pcall, "parse_errors") \in {0, 1}
          /\ Added(pcall, "packets_parsed") + Added(pcall, "parse_errors") <= 1
          /\ Added(pcall, "packets_parsed") = 1 <=> pcall.ret = XDP_DNS_OK
          /\ pcall.ret = XDP_DNS_ERR_INVALID_PARAM => pcall.g = pcall.g_before

\* the calls since the last reset that reached the is_query test (line 64) and
\* failed it
NotQueryBranch ==
    {i \in 1..Len(returns) :
        /\ returns[i].op = "xdp_dns_parse"
        /\ returns[i].parse = "Success"
        /\ returns[i].ret = XDP_DNS_ERR_NOT_DNS_QUERY}

\* the same with the calls told apart by the branch they took, not by the
\* integer they returned
C32_ParseCountersByBranch ==
    /\ g_stats.packets_received =
          g_stats.packets_parsed + g_stats.parse_errors
          + Cardinality(NotQueryBranch)
    /\ FacadeDone =>
          /\ Added(pcall, "packets_received") \in {0, 1}
          /\ Added(pcall, "packets_parsed") + Added(pcall, "parse_errors") <= 1
          /\ Added(pcall, "packets_parsed") = 1 <=> pcall.ret = XDP_DNS_OK
          /\ pcall.parse = "not called" => pcall.g = pcall.g_before


(***************************************************************************)
(* The facade's build entry points.                                        *)
(***************************************************************************)
FacadeBuildDone == pcall.op \in BuildOps

\* the bytes the answer of a build call takes
AnswerSize(op) ==
    CASE op = "xdp_dns_build_nxdomain" -> 0
      [] op = "xdp_dns_build_a_response" -> 16
      [] op = "xdp_dns_build_aaaa_response" -> 28

\* C33: each of xdp_dns_build_nxdomain, xdp_dns_build_a_response and
\* xdp_dns_build_aaaa_response increments response_built by exactly 1 and
\* writes *response_len (the length of the response) exactly when it returns
\* Ok; on every non-Ok return response_built, *response_len and the response
\* buffer are unchanged; no build call changes packets_received,
\* packets_parsed or parse_errors.
C33_BuildAccounting ==
    FacadeBuildDone =>
        /\ pcall.ret = XDP_DNS_OK =>
              /\ Added(pcall, "response_built") = 1
              /\ response_len =
                    parse(packet, Len(packet), PriorResult).result.total_consumed
                    + AnswerSize(pcall.op)
              /\ response_len <= pcall.args.cap
        /\ pcall.ret # XDP_DNS_OK =>
              /\ Added(pcall, "response_built") = 0
              /\ response_len = pcall.len_before
              /\ response = FreshBuffer(pcall.args.cap)
        /\ g_stats.packets_received = pcall.g_before.packets_received
        /\ g_stats.packets_parsed = pcall.g_before.packets_parsed
        /\ g_stats.parse_errors = pcall.g_before.parse_errors
        /\ g_stats.total_latency_ns = pcall.g_before.total_latency_ns

\* an A response has been built after a first call found the buffer one byte
\* too small
C33_Witness ==
    /\ FacadeBuildDone
    /\ pcall.op = "xdp_dns_build_a_response"
    /\ pcall.ret = XDP_DNS_OK
    /\ Len(returns) = 2
    /\ returns[1].op = "xdp_dns_build_a_response"
    /\ returns[1].ret = XDP_DNS_ERR_BUFFER_TOO_SMALL
    /\ g_stats.response_built = 1


(***************************************************************************)
(* The facade's status codes.                                              *)
(***************************************************************************)
\* a parse or build call of the facade has completed
EntryDone == pcall.op = "xdp_dns_parse" \/ pcall.op \in BuildOps

\* the response of the completed build call does not fit its buffer
ResponseTooLarge ==
    /\ pcall.op \in BuildOps
    /\ ~Malformed
    /\ pcall.args.cap <
          parse(packet, Len(packet), PriorResult).result.total_consumed
          + AnswerSize(pcall.op)

\* C34: each integer returned by xdp_dns_parse and the build entry points has
\* one meaning: -1 (InvalidParam) only for a null argument or a packet
\* shorter than 12 bytes, -3 (BufferTooSmall) only when the output buffer
\* cannot hold the response, -4 (NotInitialized) never for a packet defect,
\* and -5 (NotDnsQuery) only for a datagram that parsed successfully and has
\* QR=1; no parser rejection is reported with one of these values.
C34_StatusUnambiguous ==
    EntryDone =>
        /\ pcall.ret = XDP_DNS_ERR_INVALID_PARAM =>
              pcall.args.null \/ Len(packet) < DNS_HEADER_SIZE
        /\ pcall.ret = XDP_DNS_ERR_BUFFER_TOO_SMALL => ResponseTooLarge
        /\ pcall.ret = XDP_DNS_ERR_NOT_INITIALIZED => ~Malformed
        /\ pcall.ret = XDP_DNS_ERR_NOT_DNS_QUERY =>
              pcall.op = "xdp_dns_parse" /\ ~Malformed /\ QRBitSet

\* the same for the calls on datagrams the parser accepts
C34_StatusOfWellFormed ==
    EntryDone /\ ~Malformed =>
        /\ pcall.ret = XDP_DNS_ERR_INVALID_PARAM => pcall.args.null
        /\ pcall.ret = XDP_DNS_ERR_BUFFER_TOO_SMALL => ResponseTooLarge
        /\ pcall.ret # XDP_DNS_ERR_NOT_INITIALIZED
        /\ pcall.ret = XDP_DNS_ERR_NOT_DNS_QUERY =>
              pcall.op = "xdp_dns_parse" /\ QRBitSet


(***************************************************************************)
(* The domain field xdp_dns_parse fills.                                   *)
(***************************************************************************)
\* the domain field holds name and then a NUL
HoldsTerminated(domain, name) ==
    /\ Len(domain) > Len(name)
    /\ SubSeq(domain, 1, Len(name)) = name
    /\ domain[Len(name) + 1] = 0

\* C35: whenever xdp_dns_parse returns Ok, domain_len <= 255 and the 256-byte
\* domain field holds the decoded lowercase name followed by a NUL terminator
\* at index domain_len (including for the root name, where domain_len = 0).
C35_DomainTerminated ==
    FacadeDone /\ pcall.ret = XDP_DNS_OK =>
        /\ out_result.domain_len <= MAX_DOMAIN_LENGTH
        /\ out_result.domain_len =
              Len(DecodedName(packet, out_result.name_offset).name)
        /\ HoldsTerminated(out_result.domain,
                           DecodedName(packet, out_result.name_offset).name)

\* the same for the names that are not the root
C35_NonRootDomainTerminated ==
    FacadeDone /\ pcall.ret = XDP_DNS_OK /\ out_result.domain_len > 0 =>
        /\ out_result.domain_len <= MAX_DOMAIN_LENGTH
        /\ out_result.domain_len =
              Len(DecodedName(packet, out_result.name_offset).name)
        /\ HoldsTerminated(out_result.domain,
                           DecodedName(packet, out_result.name_offset).name)


(***************************************************************************)
(* The initialized flag.                                                   *)
(***************************************************************************)
\* what a completed call did to the counters
CounterUpdates(done) ==
    [counter \in DOMAIN done.g |-> Added(done, counter)]

\* two completed calls had the same inputs
SameInputs(a, b) ==
    /\ a.op = b.op
    /\ a.args = b.args
    /\ a.out_before = b.out_before
    /\ a.len_before = b.len_before

\* two completed calls had the same status, outputs and counter updates
SameOutcome(a, b) ==
    /\ a.ret = b.ret
    /\ a.out = b.out
    /\ a.len = b.len
    /\ a.response = b.response
    /\ CounterUpdates(a) = CounterUpdates(b)

\* init returns Ok; init and cleanup change no counter; calls with the same
\* arguments have the same status and counter updates and, when they return
\* Ok or start from the same contents of the caller's variables, the same
\* outputs, whatever the flag was
FlagIsNeverRead ==
    /\ pcall.op = "xdp_dns_init" =>
          pcall.ret = XDP_DNS_OK /\ g_initialized /\ g_stats = pcall.g_before
    /\ pcall.op = "xdp_dns_cleanup" =>
          ~g_initialized /\ g_stats = pcall.g_before
    /\ \A i, j \in 1..Len(returns) :
          /\ returns[i].op = returns[j].op /\ returns[i].args = returns[j].args
                => /\ returns[i].ret = returns[j].ret
                   /\ CounterUpdates(returns[i]) = CounterUpdates(returns[j])
                   /\ returns[i].ret = XDP_DNS_OK =>
                         /\ returns[i].response = returns[j].response
                         /\ returns[i].op \in BuildOps =>
                               returns[i].len = returns[j].len
                         /\ returns[i].op = "xdp_dns_parse" =>
                               returns[i].out = returns[j].out
          /\ SameInputs(returns[i], returns[j])
                => SameOutcome(returns[i], returns[j])

\* C36: xdp_dns_init always returns Ok, neither init nor cleanup changes any
\* counter, and for every input the status, outputs and counter updates of
\* xdp_dns_parse and the build entry points are the same whether they are
\* called before init, after init, or after cleanup; no entry point ever
\* returns NotInitialized.
C36_InitOnlyFlag ==
    /\ FlagIsNeverRead
    /\ EntryDone => pcall.ret # XDP_DNS_ERR_NOT_INITIALIZED

\* the same without the last part
C36_FlagIndependence == FlagIsNeverRead

====
